---- MODULE Spec2Model ----
(***************************************************************************)
(* The provider failover dispatcher of the x402 AI gateway                 *)
(* (src/server.js, failover variant, lines 569-1189): callGroq,            *)
(* callGemini, callOpenRouter and callAI, with the requests that are in    *)
(* flight in one Node process.                                             *)
(*                                                                         *)
(* A dispatch is one call of callAI.  Between two awaits the code runs     *)
(* without interruption, so one action is one such run: StartDispatch is    *)
(* callAI up to its first pending fetch, Resolve is the arrival of the      *)
(* response of the pending fetch up to the next pending fetch (or to the   *)
(* return / throw of callAI), Respond is the route handler taking the      *)
(* settled promise.                                                        *)
(***************************************************************************)
EXTENDS Integers, Sequences, FiniteSets, TLC

\* ---------------------------------------------------------------- bounds
NumReq == 2          \* request slots that may be in flight together
MaxLen == 2          \* longest generated text, in characters
MaxDispatches == 2   \* dispatches started in one behaviour

Requests == 1..NumReq

\* ------------------------------------------------------------- JS values
\* Characters of a generated text: one whitespace character, one other.
Chars == {" ", "a"}

RECURSIVE StringsUpTo(_)
StringsUpTo(n) ==
    IF n = 0 THEN {<<>>}
    ELSE LET S == StringsUpTo(n - 1)
         IN  S \cup {Append(s, c) : s \in {t \in S : Len(t) = n - 1}, c \in Chars}

Texts == StringsUpTo(MaxLen)

IsWhitespace(c) == c \in {" ", "\n"}

\* String.prototype.trim: strips leading and trailing whitespace.
RECURSIVE TrimStart(_)
TrimStart(s) ==
    IF s = <<>> THEN s
    ELSE IF IsWhitespace(Head(s)) THEN TrimStart(Tail(s)) ELSE s

RECURSIVE TrimEnd(_)
TrimEnd(s) ==
    IF s = <<>> THEN s
    ELSE IF IsWhitespace(s[Len(s)]) THEN TrimEnd(SubSeq(s, 1, Len(s) - 1)) ELSE s

Trim(s) == TrimEnd(TrimStart(s))

\* The values a provider function can return: a string, null/undefined, or a
\* truthy value that is no string (an array or object found at the text path).
Str(s) == [type |-> "string", text |-> s]
Null == [type |-> "null", text |-> <<>>]
Obj == [type |-> "object", text |-> <<>>]
Values == {Str(s) : s \in Texts} \cup {Null, Obj}

\* JS truthiness of such a value.
Truthy(v) == v.type = "object" \/ (v.type = "string" /\ Len(v.text) > 0)

\* ------------------------------------------------------------ environment
VARIABLES
    env,         \* process.env: which provider API keys are set
    pc,          \* per request slot: "idle", "awaiting", "returned", "threw"
    prompt,      \* per slot: the prompt argument of callAI
    tier,        \* per slot: the tier argument of callAI, as passed
    idx,         \* per slot: position of the for loop in the provider chain
    inflight,    \* per slot: providers whose fetch is pending
    invoked,     \* per slot: the provider functions called, in call order
    received,    \* per slot: the responses that arrived, in arrival order
    logged,      \* per slot: the console.log lines this dispatch wrote
    outcome,     \* per slot: what callAI returned or threw
    history,     \* providers that failed in any dispatch so far
    dispatched   \* number of dispatches started

\* The HTTP layer in front of callAI.
VARIABLES
    httpReq,     \* per slot: the HTTP request being served
    layer,       \* per slot: position in the Express stack of the layer that ran last
    written,     \* per slot: the response written so far
    abandoned    \* per slot: the client has closed the connection

dispatchVars == <<env, pc, prompt, tier, idx, inflight, invoked, received, logged,
                  outcome, history, dispatched>>
httpVars == <<httpReq, layer, written, abandoned>>

vars == <<env, pc, prompt, tier, idx, inflight, invoked, received, logged,
          outcome, history, dispatched, httpReq, layer, written, abandoned>>

\* --------------------------------------------------------------- callGroq
MODELS ==
    [lite     |-> "llama-3.1-8b-instant",
     standard |-> "llama-3.3-70b-versatile",
     pro      |-> "qwen-qwq-32b",
     vision   |-> "meta-llama/llama-4-scout-17b-16e-instruct"]

\* MODELS is a plain object literal, so MODELS[tier] also finds the properties
\* every object inherits from Object.prototype; their values are functions.
ObjectPrototypeKeys == {"constructor", "toString"}

\* An argument that is not passed (undefined).
Absent == "<absent>"

\* A default parameter value (tier = "standard") replaces undefined only.
DefaultParam(t) == IF t = Absent THEN "standard" ELSE t

\* MODELS[tier]: own property, inherited property, or undefined.
ModelsLookup(t) ==
    IF t \in DOMAIN MODELS THEN [kind |-> "string", name |-> MODELS[t]]
    ELSE IF t \in ObjectPrototypeKeys THEN [kind |-> "function", name |-> t]
    ELSE [kind |-> "undefined", name |-> ""]

\* const model = MODELS[tier] || MODELS.standard
SelectModel(t) ==
    LET m == ModelsLookup(t)
    IN  IF m.kind = "undefined" THEN ModelsLookup("standard") ELSE m

\* JSON.stringify({ model, ... }): a property whose value is a function is
\* left out of the body.
Omitted == "<no model field>"
JsonModel(m) == IF m.kind = "string" THEN m.name ELSE Omitted

NoError == [message |-> "", status |-> 0]
Error(msg, st) == [message |-> msg, status |-> st]

Request(to, model, p) == [to |-> to, model |-> model, prompt |-> p]
NoRequest == Request("", "", "")

\* What calling a provider function does before its first await: it issues a
\* fetch, or throws without one.
Fetch(req) == [fetch |-> TRUE, request |-> req, error |-> NoError]
ThrowEarly(err) == [fetch |-> FALSE, request |-> NoRequest, error |-> err]

callGroq(p, t) ==
    Fetch(Request("groq", JsonModel(SelectModel(DefaultParam(t))), p))

\* callGemini without its key test, as in the flag-driven variant.
callGeminiNoKeyTest(p) == Fetch(Request("gemini", "gemini-2.0-flash", p))

callGemini(p) ==
    IF ~env.GEMINI_API_KEY THEN ThrowEarly(Error("No Gemini key", 0))
    ELSE Fetch(Request("gemini", "gemini-2.0-flash", p))

callOpenRouter(p) ==
    IF ~env.OPENROUTER_API_KEY THEN ThrowEarly(Error("No OpenRouter key", 0))
    ELSE Fetch(Request("openrouter", "openrouter/free", p))

\* --------------------------------------------------------- HTTP responses
\* What a pending fetch resolves to: a rejection (transport error), or a
\* response with a status and a body.  A 2xx body is no JSON at all, JSON
\* without the text path, or JSON with some value at the text path.
ErrorStatuses == {503}
Reject == [kind |-> "reject", status |-> 0, body |-> "", value |-> Null]
HttpError(st) == [kind |-> "http", status |-> st, body |-> "", value |-> Null]
NotJson == [kind |-> "http", status |-> 200, body |-> "notjson", value |-> Null]
NoPath == [kind |-> "http", status |-> 200, body |-> "nopath", value |-> Null]
Content(v) == [kind |-> "http", status |-> 200, body |-> "content", value |-> v]

Responses ==
    {Reject, NotJson, NoPath} \cup {HttpError(st) : st \in ErrorStatuses}
        \cup {Content(v) : v \in Values}

\* response.ok
Ok(resp) == resp.status >= 200 /\ resp.status <= 299

Returned(v) == [kind |-> "return", value |-> v, error |-> NoError]
Threw(err) == [kind |-> "throw", value |-> Null, error |-> err]

ErrorPrefix ==
    [groq |-> "Groq error: ", gemini |-> "Gemini error: ",
     openrouter |-> "OpenRouter error: "]

\* The rest of a provider function, from the resolution of its fetch on:
\* the promise it returns is fulfilled with the text or rejected.
Settle(name, resp) ==
    IF resp.kind = "reject" THEN Threw(Error("fetch failed", 0))
    ELSE IF ~Ok(resp) THEN Threw(Error(ErrorPrefix[name], resp.status))
    ELSE IF resp.body = "notjson" THEN Threw(Error("Unexpected token", 0))
    ELSE IF resp.body = "nopath"
         THEN Threw(Error("Cannot read properties of undefined", 0))
    ELSE Returned(resp.value)

\* ----------------------------------------------------------------- callAI
\* The providers array re-ranked from the failures seen so far: a provider
\* that failed before is tried last.
providersReranked ==
    IF "groq" \in history THEN <<"gemini", "openrouter", "groq">>
    ELSE IF "gemini" \in history THEN <<"groq", "openrouter", "gemini">>
    ELSE <<"groq", "gemini", "openrouter">>

\* The names of the providers array, in array order.
providers == <<"groq", "gemini", "openrouter">>

\* ProviderFn with the tier's model handed to every provider.
ProviderFnTiered(name, p, t) ==
    IF name = "groq" THEN callGroq(p, t)
    ELSE IF name = "gemini" /\ ~env.GEMINI_API_KEY THEN callGemini(p)
    ELSE IF name = "openrouter" /\ ~env.OPENROUTER_API_KEY THEN callOpenRouter(p)
    ELSE Fetch(Request(name, JsonModel(SelectModel(DefaultParam(t))), p))

\* The fn closure of the provider named name: only groq's passes the tier.
ProviderFn(name, p, t) ==
    CASE name = "groq" -> callGroq(p, t)
      [] name = "gemini" -> callGemini(p)
      [] OTHER -> callOpenRouter(p)

\* Pending with the rest of the chain started at once and raced.
PendingRace(i) == {providers[j] : j \in i..Len(providers)}

\* The calls that are pending while the loop is at position i: the loop
\* awaits provider.fn() before it goes on, so only that one.
Pending(i) == {providers[i]}

\* Cursor with one loop position kept at module level for all calls.
CursorShared(r) ==
    CHOOSE m \in {idx[q] : q \in Requests} : \A q \in Requests : idx[q] <= m

\* The position of slot r's loop: the iterator is local to the call.
Cursor(r) == idx[r]

\* One console.log line of the catch block.
LogLine(name, err) == [name |-> name, error |-> err]

\* Attempt without its return statement: a good result is dropped and the
\* loop goes on.
AttemptNoReturn(name, res) ==
    IF res.kind = "throw"
        THEN [return |-> FALSE, value |-> Null,
              log |-> <<LogLine(name, res.error)>>]
    ELSE [return |-> FALSE, value |-> Null, log |-> <<>>]

\* Attempt testing result.length instead of result.trim().length.
AttemptNoTrim(name, res) ==
    IF res.kind = "throw"
        THEN [return |-> FALSE, value |-> Null,
              log |-> <<LogLine(name, res.error)>>]
    ELSE IF Truthy(res.value) /\ res.value.type = "string"
        THEN [return |-> TRUE, value |-> res.value, log |-> <<>>]
    ELSE [return |-> FALSE, value |-> Null, log |-> <<>>]

\* Attempt returning result.trim() in place of result.
AttemptTrimmed(name, res) ==
    IF res.kind = "throw"
        THEN [return |-> FALSE, value |-> Null,
              log |-> <<LogLine(name, res.error)>>]
    ELSE IF ~Truthy(res.value)
        THEN [return |-> FALSE, value |-> Null, log |-> <<>>]
    ELSE IF res.value.type # "string"
        THEN [return |-> FALSE, value |-> Null,
              log |-> <<LogLine(name, Error("result.trim is not a function", 0))>>]
    ELSE IF Len(Trim(res.value.text)) > 0
        THEN [return |-> TRUE, value |-> Str(Trim(res.value.text)), log |-> <<>>]
    ELSE [return |-> FALSE, value |-> Null, log |-> <<>>]

\* Attempt testing only that result is truthy: if (result) return result.
AttemptTruthy(name, res) ==
    IF res.kind = "throw"
        THEN [return |-> FALSE, value |-> Null,
              log |-> <<LogLine(name, res.error)>>]
    ELSE IF Truthy(res.value)
        THEN [return |-> TRUE, value |-> res.value, log |-> <<>>]
    ELSE [return |-> FALSE, value |-> Null, log |-> <<>>]

\* The body of the try / catch for one settled provider promise: return the
\* result, or go on to the next provider, with or without a log line.
\* result.trim() on a truthy value that is no string throws a TypeError,
\* which the catch block takes like any other error.
Attempt(name, res) ==
    IF res.kind = "throw"
        THEN [return |-> FALSE, value |-> Null,
              log |-> <<LogLine(name, res.error)>>]
    ELSE IF ~Truthy(res.value)
        THEN [return |-> FALSE, value |-> Null, log |-> <<>>]
    ELSE IF res.value.type # "string"
        THEN [return |-> FALSE, value |-> Null,
              log |-> <<LogLine(name, Error("result.trim is not a function", 0))>>]
    ELSE IF Len(Trim(res.value.text)) > 0
        THEN [return |-> TRUE, value |-> res.value, log |-> <<>>]
    ELSE [return |-> FALSE, value |-> Null, log |-> <<>>]

NoOutcome == [kind |-> "none", value |-> Null, message |-> ""]
Value(v) == [kind |-> "value", value |-> v, message |-> ""]
AllFailed ==
    [kind |-> "error", value |-> Null,
     message |-> "All AI providers failed. Please try again later."]

\* Exhausted with the cause of the last failure appended to the message.
ExhaustedWithCause(lg) ==
    IF lg = <<>> THEN AllFailed
    ELSE [AllFailed EXCEPT !.message = lg[Len(lg)].error.message]

\* Exhausted answering with an empty text instead of throwing.
ExhaustedSilently(lg) == Value(Str(<<>>))

\* The statement after the loop: throw new Error(...), whatever the log
\* lines lg of the failed providers say.
Exhausted(lg) == AllFailed

Invocation(name, c) == [name |-> name, fetch |-> c.fetch, request |-> c.request]

\* Walk without the try / catch: an error a provider threw leaves callAI.
RECURSIVE WalkRethrow(_, _, _, _, _)
WalkRethrow(p, t, i, inv, lg) ==
    IF lg # <<>>
        THEN [pc |-> "threw", idx |-> i, inflight |-> {}, invoked |-> inv,
              logged |-> <<>>,
              outcome |-> [AllFailed EXCEPT !.message = lg[Len(lg)].error.message]]
    ELSE IF i > Len(providers)
        THEN [pc |-> "threw", idx |-> i, inflight |-> {}, invoked |-> inv,
              logged |-> lg, outcome |-> Exhausted(lg)]
    ELSE LET name == providers[i]
             c == ProviderFn(name, p, t)
         IN  IF c.fetch
                 THEN [pc |-> "awaiting", idx |-> i, inflight |-> Pending(i),
                       invoked |-> Append(inv, Invocation(name, c)),
                       logged |-> lg, outcome |-> NoOutcome]
                 ELSE WalkRethrow(p, t, i + 1, Append(inv, Invocation(name, c)),
                                  Append(lg, LogLine(name, c.error)))

\* Walk behind a cache of results: a call whose prompt and tier another call
\* has an answer for returns that answer and calls no provider.
RECURSIVE WalkCached(_, _, _, _, _)
WalkCached(p, t, i, inv, lg) ==
    IF i = 1 /\ \E q \in Requests :
                    pc[q] = "returned" /\ prompt[q] = p /\ DefaultParam(tier[q]) = t
        THEN LET q == CHOOSE q \in Requests :
                          pc[q] = "returned" /\ prompt[q] = p /\ DefaultParam(tier[q]) = t
             IN  [pc |-> "returned", idx |-> 0, inflight |-> {}, invoked |-> inv,
                  logged |-> lg, outcome |-> outcome[q]]
    ELSE IF i > Len(providers)
        THEN [pc |-> "threw", idx |-> i, inflight |-> {}, invoked |-> inv,
              logged |-> lg, outcome |-> Exhausted(lg)]
    ELSE LET name == providers[i]
             c == ProviderFn(name, p, t)
         IN  IF c.fetch
                 THEN [pc |-> "awaiting", idx |-> i, inflight |-> Pending(i),
                       invoked |-> Append(inv, Invocation(name, c)),
                       logged |-> lg, outcome |-> NoOutcome]
                 ELSE WalkCached(p, t, i + 1, Append(inv, Invocation(name, c)),
                                 Append(lg, LogLine(name, c.error)))

\* The for loop from position i on, up to the next pending fetch or to the
\* throw after the loop.  inv and lg are the invocations and log lines so far.
RECURSIVE Walk(_, _, _, _, _)
Walk(p, t, i, inv, lg) ==
    IF i > Len(providers)
        THEN [pc |-> "threw", idx |-> i, inflight |-> {}, invoked |-> inv,
              logged |-> lg, outcome |-> Exhausted(lg)]
    ELSE LET name == providers[i]
             c == ProviderFn(name, p, t)
         IN  IF c.fetch
                 THEN [pc |-> "awaiting", idx |-> i, inflight |-> Pending(i),
                       invoked |-> Append(inv, Invocation(name, c)),
                       logged |-> lg, outcome |-> NoOutcome]
                 ELSE Walk(p, t, i + 1, Append(inv, Invocation(name, c)),
                           Append(lg, LogLine(name, c.error)))

\* The providers a walk that stopped at w has left behind as failed.
FailedIn(w) ==
    {w.invoked[j].name : j \in {k \in 1..Len(w.invoked) : k < w.idx}}

Install(r, w) ==
    /\ pc' = [pc EXCEPT ![r] = w.pc]
    /\ idx' = [idx EXCEPT ![r] = w.idx]
    /\ inflight' = [inflight EXCEPT ![r] = w.inflight]
    /\ invoked' = [invoked EXCEPT ![r] = w.invoked]
    /\ logged' = [logged EXCEPT ![r] = w.logged]
    /\ outcome' = [outcome EXCEPT ![r] = w.outcome]
    /\ history' = history \cup FailedIn(w)

\* A route handler calls callAI(p, t): the loop runs up to its first await.
StartDispatch(r, p, t) ==
    /\ pc[r] = "idle"
    /\ dispatched < MaxDispatches
    /\ dispatched' = dispatched + 1
    /\ prompt' = [prompt EXCEPT ![r] = p]
    /\ tier' = [tier EXCEPT ![r] = t]
    /\ received' = [received EXCEPT ![r] = <<>>]
    /\ Install(r, Walk(p, DefaultParam(t), 1, <<>>, <<>>))
    /\ UNCHANGED env

\* Resolve with a deadline of callAI's own: the loop may also give up on the
\* pending call and go on before any response has arrived.
ResolveOrDeadline(r, resp) ==
    /\ pc[r] = "awaiting"
    /\ \E name \in inflight[r] :
       \/ LET a == Attempt(name, Settle(name, resp))
          IN  /\ received' = [received EXCEPT ![r] = Append(@, [name |-> name, response |-> resp])]
              /\ IF a.return
                   THEN Install(r, [pc |-> "returned", idx |-> Cursor(r),
                                    inflight |-> inflight[r] \ {name},
                                    invoked |-> invoked[r], logged |-> logged[r],
                                    outcome |-> Value(a.value)])
                   ELSE Install(r, Walk(prompt[r], DefaultParam(tier[r]), Cursor(r) + 1,
                                        invoked[r], logged[r] \o a.log))
       \/ /\ received' = received
          /\ Install(r, Walk(prompt[r], DefaultParam(tier[r]), Cursor(r) + 1, invoked[r],
                             Append(logged[r], LogLine(name, Error("timed out", 0)))))
    /\ UNCHANGED <<env, prompt, tier, dispatched>>

\* The pending fetch of slot r resolves with resp: the provider function
\* settles, callAI resumes after its await and runs to the next await, to its
\* return or to its throw.
Resolve(r, resp) ==
    /\ pc[r] = "awaiting"
    /\ \E name \in inflight[r] :
       LET a == Attempt(name, Settle(name, resp))
       IN  /\ received' = [received EXCEPT ![r] = Append(@, [name |-> name, response |-> resp])]
           /\ IF a.return
                THEN Install(r, [pc |-> "returned", idx |-> Cursor(r),
                                 inflight |-> inflight[r] \ {name},
                                 invoked |-> invoked[r], logged |-> logged[r],
                                 outcome |-> Value(a.value)])
                ELSE Install(r, Walk(prompt[r], DefaultParam(tier[r]), Cursor(r) + 1,
                                     invoked[r], logged[r] \o a.log))
    /\ UNCHANGED <<env, prompt, tier, dispatched>>

\* The awaiting route handler takes the result or the error and answers; the
\* frame of the call is gone.
Respond(r) ==
    /\ pc[r] \in {"returned", "threw"}
    /\ pc' = [pc EXCEPT ![r] = "idle"]
    /\ prompt' = [prompt EXCEPT ![r] = ""]
    /\ tier' = [tier EXCEPT ![r] = ""]
    /\ idx' = [idx EXCEPT ![r] = 0]
    /\ inflight' = [inflight EXCEPT ![r] = {}]
    /\ invoked' = [invoked EXCEPT ![r] = <<>>]
    /\ received' = [received EXCEPT ![r] = <<>>]
    /\ logged' = [logged EXCEPT ![r] = <<>>]
    /\ outcome' = [outcome EXCEPT ![r] = NoOutcome]
    /\ UNCHANGED <<env, history, dispatched>>

\* -------------------------------------------------------- the HTTP layer
\* The body fields the handlers require, and what a client may send in one:
\* nothing, the empty string, or a text.
FieldNames ==
    {"text", "code", "prompt", "question", "topic", "item1",
    "item2", "description", "json", "password"}
FieldValues == {Absent, "", "Paris"}

\* The keys of the route table handed to paymentMiddleware, less one.
RouteTableUnlisted ==
    {"/api/summarize", "/api/translate",
     "/api/explain-code", "/api/write", "/api/analyze-sentiment",
     "/api/chat", "/api/rewrite", "/api/proofread", "/api/brainstorm",
     "/api/eli5", "/api/extract-keywords", "/api/generate-title",
     "/api/compare", "/api/code-review", "/api/sql-generate",
     "/api/regex-generate", "/api/pro/chat", "/api/pro/write",
     "/api/pro/code-review", "/api/text-stats", "/api/json-format",
     "/api/base64", "/api/password-strength"}

\* The keys of the route table handed to paymentMiddleware.
RouteTable ==
    {"/api/summarize", "/api/translate", "/api/explain-code",
     "/api/write", "/api/analyze-sentiment", "/api/chat", "/api/rewrite",
     "/api/proofread", "/api/brainstorm", "/api/eli5",
     "/api/extract-keywords", "/api/generate-title", "/api/compare",
     "/api/code-review", "/api/sql-generate", "/api/regex-generate",
     "/api/pro/chat", "/api/pro/write", "/api/pro/code-review",
     "/api/text-stats", "/api/json-format", "/api/base64",
     "/api/password-strength", "/api/hash"}

\* The paths of the app.post registrations, in registration order.
Handlers ==
    <<"/api/summarize", "/api/translate", "/api/explain-code",
     "/api/write", "/api/analyze-sentiment", "/api/chat", "/api/rewrite",
     "/api/proofread", "/api/brainstorm", "/api/eli5",
     "/api/extract-keywords", "/api/generate-title", "/api/compare",
     "/api/code-review", "/api/sql-generate", "/api/regex-generate",
     "/api/pro/chat", "/api/pro/write", "/api/pro/code-review",
     "/api/text-stats", "/api/json-format", "/api/base64",
     "/api/password-strength", "/api/hash">>

\* The handlers that call callAI, and those of them that pass "pro".
AiRoutes ==
    {"/api/summarize", "/api/translate", "/api/explain-code",
     "/api/write", "/api/analyze-sentiment", "/api/chat", "/api/rewrite",
     "/api/proofread", "/api/brainstorm", "/api/eli5",
     "/api/extract-keywords", "/api/generate-title", "/api/compare",
     "/api/code-review", "/api/sql-generate", "/api/regex-generate",
     "/api/pro/chat", "/api/pro/write", "/api/pro/code-review"}
ProRoutes == {"/api/pro/chat", "/api/pro/write", "/api/pro/code-review"}

\* The fields a handler tests before anything else.
RequiredFields(path) ==
    CASE path \in {"/api/summarize", "/api/translate", "/api/analyze-sentiment",
              "/api/rewrite", "/api/proofread", "/api/extract-keywords",
              "/api/generate-title", "/api/text-stats", "/api/base64",
              "/api/hash"} ->
             {"text"}
      [] path \in {"/api/explain-code", "/api/code-review", "/api/pro/code-review"} ->
             {"code"}
      [] path \in {"/api/write", "/api/pro/write"} ->
             {"prompt"}
      [] path \in {"/api/chat", "/api/pro/chat"} ->
             {"question"}
      [] path \in {"/api/brainstorm", "/api/eli5"} ->
             {"topic"}
      [] path \in {"/api/compare"} ->
             {"item1", "item2"}
      [] path \in {"/api/sql-generate", "/api/regex-generate"} ->
             {"description"}
      [] path \in {"/api/json-format"} ->
             {"json"}
      [] path \in {"/api/password-strength"} ->
             {"password"}
      [] OTHER -> {}

\* The error text of the handler's 400.
MissingMessage(path) ==
    IF path = "/api/compare" THEN "Missing item1 or item2"
    ELSE "Missing " \o (CHOOSE f \in RequiredFields(path) : TRUE)

\* The prompt a handler builds from the body, the optional fields of the
\* body left out (their defaults apply).
PromptOf(path, body) ==
    CASE path = "/api/summarize" ->
             "Summarize this concisely:\n\n"
             \o body.text
      [] path = "/api/translate" ->
             "Translate to French:\n\n"
             \o body.text
      [] path = "/api/explain-code" ->
             "Explain this code in plain English:\n\n"
             \o body.code
      [] path = "/api/write" ->
             "Write a general based on:\n\n"
             \o body.prompt
      [] path = "/api/analyze-sentiment" ->
             "Analyze sentiment. Reply in JSON with sentiment, "
             \o "confidence, summary:\n\n"
             \o body.text
      [] path = "/api/chat" ->
             body.question
      [] path = "/api/rewrite" ->
             "Rewrite this text in a professional tone. Keep the "
             \o "meaning but improve clarity and style:\n\n"
             \o body.text
      [] path = "/api/proofread" ->
             "Proofread this text. Fix all grammar, spelling, and "
             \o "punctuation errors. Return the corrected version:\n\n"
             \o body.text
      [] path = "/api/brainstorm" ->
             "Brainstorm 10 creative and unique ideas about:\n\n"
             \o body.topic
      [] path = "/api/eli5" ->
             "Explain this like I'm 5 years old. Use simple words and "
             \o "fun examples:\n\n"
             \o body.topic
      [] path = "/api/extract-keywords" ->
             "Extract the most important keywords and key phrases "
             \o "from this text. Return them as a JSON array:\n\n"
             \o body.text
      [] path = "/api/generate-title" ->
             "Generate 5 catchy, engaging headlines/titles for this "
             \o "content:\n\n"
             \o body.text
      [] path = "/api/compare" ->
             "Compare these two things in detail with pros, cons, and "
             \o "a recommendation:\n\n1: "
             \o body.item1
             \o "\n2: "
             \o body.item2
      [] path = "/api/code-review" ->
             "Review this  code. Find bugs, security issues, and "
             \o "suggest improvements:\n\n"
             \o body.code
      [] path = "/api/sql-generate" ->
             "Generate a SQL query for this request. Return only the "
             \o "query:\n\n"
             \o body.description
      [] path = "/api/regex-generate" ->
             "Generate a regex pattern for this requirement. Return "
             \o "the regex and explain it:\n\n"
             \o body.description
      [] path = "/api/pro/chat" ->
             body.question
      [] path = "/api/pro/write" ->
             "Write a high-quality article based on:\n\n"
             \o body.prompt
      [] path = "/api/pro/code-review" ->
             "Do a deep, thorough code review of this  code. Analyze "
             \o "architecture, bugs, security, performance, and best "
             \o "practices:\n\n"
             \o body.code
      [] OTHER -> ""

\* Fields a client may add to a body to ask for a tier or a model; no
\* handler reads them.
UnreadFields == {"tier", "model"}

\* req.body after express.json(): the fields as sent, every other field
\* left out.
Body(sent) ==
    [f \in FieldNames \cup UnreadFields |->
        IF f \in DOMAIN sent THEN sent[f] ELSE Absent]

\* The payment proof of a request: no X-PAYMENT header, one the facilitator
\* rejects, one it accepts.
Proofs == {"none", "invalid", "valid"}

HttpRequest(path, proof, body) == [body |-> body, path |-> path, proof |-> proof]
NoHttpRequest == HttpRequest("", "none", Body(<<>>))

\* Slot r holds a request that has arrived and is not yet finished with.
Arrived(r) == httpReq[r].path # ""

\* What a handler writes: the status and, of the JSON body, error, result,
\* model and tier (the handler that calls this sets no tier).
Response(st, err, result, model) ==
    [tier |-> Absent, status |-> st, model |-> model, error |-> err,
     result |-> result]
NoResponse == Response(0, "", Null, "")

\* The paths of the app.get registrations, in registration order.
Discovery == <<"/.well-known/x402", "/llms.txt", "/", "/health", "/api">>
DiscoveryPaths == {Discovery[i] : i \in 1..Len(Discovery)}

\* The Express stack with the handlers registered ahead of the middleware.
StackHandlersFirst ==
    Handlers \o <<"express.json", "paymentMiddleware">> \o Discovery

\* The Express stack: the layers in the order app.use / app.post / app.get
\* registered them, which is the order a request meets them in.
Stack == <<"express.json", "paymentMiddleware">> \o Handlers \o Discovery

Middlewares == {"express.json", "paymentMiddleware"}

\* A middleware registered without a path meets every request, an app.post
\* handler those of its path.
Matches(l, path) == l \in Middlewares \/ l = path

\* The layer a request at slot r meets next; 0 when none is left.
NextLayer(r) ==
    LET S == {j \in (layer[r] + 1)..Len(Stack) : Matches(Stack[j], httpReq[r].path)}
    IN  IF S = {} THEN 0 ELSE CHOOSE j \in S : \A k \in S : j <= k

\* The request of slot r is on its way down the stack: no layer has answered
\* it and no handler is waiting on callAI for it.
Travelling(r) ==
    Arrived(r) /\ written[r] = NoResponse /\ pc[r] = "idle"

\* What the payment middleware does with a request: it answers 402 with the
\* payment terms when the path is in its route table and no valid proof is
\* attached, and calls next() otherwise.
PaymentGate(path, proof) ==
    IF path \in RouteTable /\ proof # "valid" THEN "402" ELSE "next"

\* !field taken as field === undefined: the empty string passes.
FalsyUndefinedOnly(v) == v = Absent

\* !field, for a field that is absent or a string.
Falsy(v) == v \in {Absent, ""}

\* The tier argument of the handler's callAI call.
TierOf(path) == IF path \in ProRoutes THEN "pro" ELSE Absent

\* The tier label the handler writes into its answer, if any.
TierLabel(path) == IF path \in ProRoutes THEN "pro" ELSE Absent

\* The model label the handler writes into its answer.
ModelLabel(path) == IF path \in ProRoutes THEN "qwen-qwq-32b" ELSE "llama-3.3-70b"

\* A request arrives at a free slot.
Receive(r, q) ==
    /\ ~Arrived(r)
    /\ httpReq' = [httpReq EXCEPT ![r] = q]
    /\ UNCHANGED <<layer, written, abandoned>>
    /\ UNCHANGED dispatchVars

\* express.json() has parsed the body and calls next().
ParseBody(r) ==
    /\ Travelling(r)
    /\ NextLayer(r) # 0
    /\ Stack[NextLayer(r)] = "express.json"
    /\ layer' = [layer EXCEPT ![r] = NextLayer(r)]
    /\ UNCHANGED <<httpReq, written, abandoned>>
    /\ UNCHANGED dispatchVars

\* The payment middleware answers 402 or calls next().
Gate(r) ==
    /\ Travelling(r)
    /\ NextLayer(r) # 0
    /\ Stack[NextLayer(r)] = "paymentMiddleware"
    /\ layer' = [layer EXCEPT ![r] = NextLayer(r)]
    /\ IF PaymentGate(httpReq[r].path, httpReq[r].proof) = "402"
         THEN written' = [written EXCEPT ![r] = Response(402, "X-PAYMENT header is required", Null, "")]
         ELSE written' = written
    /\ UNCHANGED <<httpReq, abandoned>>
    /\ UNCHANGED dispatchVars

\* Handle with the tier taken from the body when the body names one.
HandleClientTier(r) ==
    /\ Travelling(r)
    /\ NextLayer(r) # 0
    /\ Stack[NextLayer(r)] \notin Middlewares \cup DiscoveryPaths
    /\ layer' = [layer EXCEPT ![r] = NextLayer(r)]
    /\ LET path == httpReq[r].path
           body == httpReq[r].body
       IN  IF \E f \in RequiredFields(path) : Falsy(body[f])
             THEN /\ written' = [written EXCEPT ![r] = Response(400, MissingMessage(path), Null, "")]
                  /\ UNCHANGED dispatchVars
           ELSE IF path \in AiRoutes
             THEN /\ StartDispatch(r, PromptOf(path, body),
                                   IF body.tier # Absent THEN body.tier ELSE TierOf(path))
                  /\ written' = written
           ELSE /\ written' = [written EXCEPT ![r] = Response(200, "", Obj, "")]
                /\ UNCHANGED dispatchVars
    /\ UNCHANGED <<httpReq, abandoned>>

\* The route handler runs up to its first await: it answers 400 for a
\* missing field; an AI handler then calls callAI, a utility handler
\* computes its answer on the spot (here an object and no more; Compute has
\* the answers of json-format, hash and password-strength in full).
Handle(r) ==
    /\ Travelling(r)
    /\ NextLayer(r) # 0
    /\ Stack[NextLayer(r)] \notin Middlewares \cup DiscoveryPaths
    /\ layer' = [layer EXCEPT ![r] = NextLayer(r)]
    /\ LET path == httpReq[r].path
           body == httpReq[r].body
       IN  IF \E f \in RequiredFields(path) : Falsy(body[f])
             THEN /\ written' = [written EXCEPT ![r] = Response(400, MissingMessage(path), Null, "")]
                  /\ UNCHANGED dispatchVars
           ELSE IF path \in AiRoutes
             THEN /\ StartDispatch(r, PromptOf(path, body), TierOf(path))
                  /\ written' = written
           ELSE /\ written' = [written EXCEPT ![r] = Response(200, "", Obj, "")]
                /\ UNCHANGED dispatchVars
    /\ UNCHANGED <<httpReq, abandoned>>

\* The response of the pending provider call of slot r arrives.
Deliver(r, resp) ==
    /\ Resolve(r, resp)
    /\ UNCHANGED httpVars

\* Reply with any provider failure of the dispatch made fatal.
ReplyAnyFailureFatal(r) ==
    /\ Arrived(r)
    /\ Respond(r)
    /\ written' = [written EXCEPT ![r] =
                 IF outcome[r].kind = "value" /\ logged[r] = <<>>
                   THEN Response(200, "", outcome[r].value, ModelLabel(httpReq[r].path))
                 ELSE IF outcome[r].kind = "value"
                   THEN Response(500, logged[r][1].error.message, Null, "")
                 ELSE Response(500, outcome[r].message, Null, "")]
    /\ UNCHANGED <<httpReq, layer, abandoned>>

\* Reply with the model and tier of the provider call that produced the
\* text in place of the route's labels.
ReplyLabelsProvider(r) ==
    /\ Arrived(r)
    /\ Respond(r)
    /\ written' = [written EXCEPT ![r] =
                 IF outcome[r].kind = "value"
                   THEN [Response(200, "", outcome[r].value,
                                  invoked[r][Len(invoked[r])].request.model)
                            EXCEPT !.tier = IF Len(invoked[r]) = 1
                                              THEN TierLabel(httpReq[r].path)
                                              ELSE Absent]
                   ELSE Response(500, outcome[r].message, Null, "")]
    /\ UNCHANGED <<httpReq, layer, abandoned>>

\* Reply without the catch block: the error callAI threw is dropped and
\* nothing is written.
ReplyWithoutCatch(r) ==
    /\ Arrived(r)
    /\ Respond(r)
    /\ written' = [written EXCEPT ![r] =
                 IF outcome[r].kind = "value"
                   THEN Response(200, "", outcome[r].value, ModelLabel(httpReq[r].path))
                   ELSE NoResponse]
    /\ UNCHANGED <<httpReq, layer, abandoned>>

\* The handler resumes after await callAI(...): res.json with the result, or
\* the catch block's 500 with err.message.
Reply(r) ==
    /\ Arrived(r)
    /\ Respond(r)
    /\ written' = [written EXCEPT ![r] =
                 IF outcome[r].kind = "value"
                   THEN [Response(200, "", outcome[r].value, ModelLabel(httpReq[r].path))
                            EXCEPT !.tier = TierLabel(httpReq[r].path)]
                   ELSE Response(500, outcome[r].message, Null, "")]
    /\ UNCHANGED <<httpReq, layer, abandoned>>

\* Abandon with the request's pending provider call aborted and its
\* dispatch ended.
AbandonAborting(r) ==
    /\ Arrived(r)
    /\ ~abandoned[r]
    /\ abandoned' = [abandoned EXCEPT ![r] = TRUE]
    /\ IF pc[r] = "awaiting"
         THEN /\ pc' = [pc EXCEPT ![r] = "threw"]
              /\ inflight' = [inflight EXCEPT ![r] = {}]
              /\ outcome' = [outcome EXCEPT ![r] =
                              [kind |-> "error", value |-> Null,
                               message |-> "This operation was aborted"]]
              /\ UNCHANGED <<env, prompt, tier, idx, invoked, received, logged,
                             history, dispatched>>
         ELSE UNCHANGED dispatchVars
    /\ UNCHANGED <<httpReq, layer, written>>

\* The client closes the connection.  No handler listens for it and no
\* fetch carries a signal, so nothing else changes.
Abandon(r) ==
    /\ Arrived(r)
    /\ ~abandoned[r]
    /\ abandoned' = [abandoned EXCEPT ![r] = TRUE]
    /\ UNCHANGED <<httpReq, layer, written>>
    /\ UNCHANGED dispatchVars

\* The exchange is over and its slot is free again.
Finish(r) ==
    /\ written[r] # NoResponse
    /\ httpReq' = [httpReq EXCEPT ![r] = NoHttpRequest]
    /\ layer' = [layer EXCEPT ![r] = 0]
    /\ written' = [written EXCEPT ![r] = NoResponse]
    /\ abandoned' = [abandoned EXCEPT ![r] = FALSE]
    /\ UNCHANGED dispatchVars

\* ------------------------------------------------------------ discovery
\* The price of each path in the route table handed to paymentMiddleware.
RoutePrice ==
    ("/api/summarize" :> "$0.003" @@
     "/api/translate" :> "$0.005" @@
     "/api/explain-code" :> "$0.005" @@
     "/api/write" :> "$0.01" @@
     "/api/analyze-sentiment" :> "$0.003" @@
     "/api/chat" :> "$0.005" @@
     "/api/rewrite" :> "$0.005" @@
     "/api/proofread" :> "$0.003" @@
     "/api/brainstorm" :> "$0.01" @@
     "/api/eli5" :> "$0.003" @@
     "/api/extract-keywords" :> "$0.003" @@
     "/api/generate-title" :> "$0.003" @@
     "/api/compare" :> "$0.005" @@
     "/api/code-review" :> "$0.01" @@
     "/api/sql-generate" :> "$0.01" @@
     "/api/regex-generate" :> "$0.005" @@
     "/api/pro/chat" :> "$0.02" @@
     "/api/pro/write" :> "$0.03" @@
     "/api/pro/code-review" :> "$0.03" @@
     "/api/text-stats" :> "$0.001" @@
     "/api/json-format" :> "$0.001" @@
     "/api/base64" :> "$0.001" @@
     "/api/password-strength" :> "$0.001" @@
     "/api/hash" :> "$0.001")

\* The endpoints array of GET /.well-known/x402: path and price of each entry.
Manifest ==
    <<[path |-> "/api/summarize", price |-> "$0.003"],
      [path |-> "/api/translate", price |-> "$0.005"],
      [path |-> "/api/explain-code", price |-> "$0.005"],
      [path |-> "/api/write", price |-> "$0.01"],
      [path |-> "/api/analyze-sentiment", price |-> "$0.003"],
      [path |-> "/api/chat", price |-> "$0.005"],
      [path |-> "/api/rewrite", price |-> "$0.005"],
      [path |-> "/api/proofread", price |-> "$0.003"],
      [path |-> "/api/brainstorm", price |-> "$0.01"],
      [path |-> "/api/eli5", price |-> "$0.003"],
      [path |-> "/api/extract-keywords", price |-> "$0.003"],
      [path |-> "/api/generate-title", price |-> "$0.003"],
      [path |-> "/api/compare", price |-> "$0.005"],
      [path |-> "/api/code-review", price |-> "$0.01"],
      [path |-> "/api/sql-generate", price |-> "$0.01"],
      [path |-> "/api/regex-generate", price |-> "$0.005"],
      [path |-> "/api/pro/chat", price |-> "$0.02"],
      [path |-> "/api/pro/write", price |-> "$0.03"],
      [path |-> "/api/pro/code-review", price |-> "$0.03"],
      [path |-> "/api/text-stats", price |-> "$0.001"],
      [path |-> "/api/json-format", price |-> "$0.001"],
      [path |-> "/api/base64", price |-> "$0.001"],
      [path |-> "/api/password-strength", price |-> "$0.001"],
      [path |-> "/api/hash", price |-> "$0.001"]>>

\* The endpoint lists of GET /api: path and price of each entry.
ApiDirectory ==
    [standardEndpoints |->
        <<[path |-> "/api/summarize", price |-> "$0.003"],
          [path |-> "/api/translate", price |-> "$0.005"],
          [path |-> "/api/explain-code", price |-> "$0.005"],
          [path |-> "/api/write", price |-> "$0.01"],
          [path |-> "/api/analyze-sentiment", price |-> "$0.003"],
          [path |-> "/api/chat", price |-> "$0.005"],
          [path |-> "/api/rewrite", price |-> "$0.005"],
          [path |-> "/api/proofread", price |-> "$0.003"],
          [path |-> "/api/brainstorm", price |-> "$0.01"],
          [path |-> "/api/eli5", price |-> "$0.003"],
          [path |-> "/api/extract-keywords", price |-> "$0.003"],
          [path |-> "/api/generate-title", price |-> "$0.003"],
          [path |-> "/api/compare", price |-> "$0.005"],
          [path |-> "/api/code-review", price |-> "$0.01"],
          [path |-> "/api/sql-generate", price |-> "$0.01"],
          [path |-> "/api/regex-generate", price |-> "$0.005"]>>,
     proEndpoints |->
        <<[path |-> "/api/pro/chat", price |-> "$0.02"],
          [path |-> "/api/pro/write", price |-> "$0.03"],
          [path |-> "/api/pro/code-review", price |-> "$0.03"]>>,
     utilityEndpoints |->
        <<[path |-> "/api/text-stats", price |-> "$0.001"],
          [path |-> "/api/json-format", price |-> "$0.001"],
          [path |-> "/api/base64", price |-> "$0.001"],
          [path |-> "/api/password-strength", price |-> "$0.001"],
          [path |-> "/api/hash", price |-> "$0.001"]>>]

\* The JSON body of a discovery answer.
Json(x) == [type |-> "object", text |-> <<>>, json |-> x]

\* What the app.get handler of path writes.
Payload(path) ==
    CASE path = "/.well-known/x402" -> Json([endpoints |-> Manifest])
      [] path = "/api" -> Json(ApiDirectory)
      [] path = "/health" -> Json([endpoints |-> 24])
      [] OTHER -> Obj

\* Discover with the manifest's first price left at an earlier value.
DiscoverStale(r) ==
    /\ Travelling(r)
    /\ NextLayer(r) # 0
    /\ Stack[NextLayer(r)] \in DiscoveryPaths
    /\ layer' = [layer EXCEPT ![r] = NextLayer(r)]
    /\ written' = [written EXCEPT ![r] =
          IF httpReq[r].path = "/.well-known/x402"
            THEN Response(200, "",
                          Json([endpoints |-> [Manifest EXCEPT ![1].price = "$0.01"]]), "")
            ELSE Response(200, "", Payload(httpReq[r].path), "")]
    /\ UNCHANGED <<httpReq, abandoned>>
    /\ UNCHANGED dispatchVars

\* An app.get handler answers.
Discover(r) ==
    /\ Travelling(r)
    /\ NextLayer(r) # 0
    /\ Stack[NextLayer(r)] \in DiscoveryPaths
    /\ layer' = [layer EXCEPT ![r] = NextLayer(r)]
    /\ written' = [written EXCEPT ![r] = Response(200, "", Payload(httpReq[r].path), "")]
    /\ UNCHANGED <<httpReq, abandoned>>
    /\ UNCHANGED dispatchVars

\* ------------------------------------------------------ utility handlers
\* Body fields of the utility handlers are JS values: a string, null,
\* undefined (the field was not sent) or an object.
Undefined == [type |-> "undefined", text |-> <<>>]

\* The characters of a json field: a digit, the array brackets, the comma
\* and one whitespace character.
JsonChars == {"1", "[", "]", ",", " "}

\* The values JSON.parse builds from such a text: numbers and arrays.
Num(d) == [kind |-> "number", digits |-> d, items |-> <<>>]
Arr(xs) == [kind |-> "array", digits |-> <<>>, items |-> xs]

\* JSON.parse at work: the value read so far with the text left, or the
\* SyntaxError it throws.
Parsed(v, rest) == [ok |-> TRUE, value |-> v, rest |-> rest]
SyntaxError == [ok |-> FALSE, value |-> Num(<<>>), rest |-> <<>>]

\* The digits a number starts with.
RECURSIVE DigitsOf(_)
DigitsOf(s) ==
    IF s # <<>> /\ Head(s) = "1" THEN <<"1">> \o DigitsOf(Tail(s)) ELSE <<>>

\* JSON.parse reading one value, and the elements of an array after its
\* opening bracket.
RECURSIVE ParseValue(_)
RECURSIVE ParseElements(_, _)
ParseValue(s) ==
    LET t == TrimStart(s)
    IN  IF t = <<>> THEN SyntaxError
        ELSE IF Head(t) = "1"
          THEN LET d == DigitsOf(t)
               IN  Parsed(Num(d), SubSeq(t, Len(d) + 1, Len(t)))
        ELSE IF Head(t) = "["
          THEN LET u == TrimStart(Tail(t))
               IN  IF u # <<>> /\ Head(u) = "]"
                     THEN Parsed(Arr(<<>>), Tail(u))
                     ELSE ParseElements(u, <<>>)
        ELSE SyntaxError

ParseElements(s, acc) ==
    LET e == ParseValue(s)
    IN  IF ~e.ok THEN SyntaxError
        ELSE LET u == TrimStart(e.rest)
             IN  IF u = <<>> THEN SyntaxError
                 ELSE IF Head(u) = ","
                   THEN ParseElements(Tail(u), Append(acc, e.value))
                 ELSE IF Head(u) = "]"
                   THEN Parsed(Arr(Append(acc, e.value)), Tail(u))
                 ELSE SyntaxError

\* JSON.parse(text): one value with nothing but whitespace around it.
JSONparse(s) ==
    LET e == ParseValue(s)
    IN  IF e.ok /\ TrimStart(e.rest) = <<>> THEN e ELSE SyntaxError

RECURSIVE Join(_, _)
Join(parts, sep) ==
    IF parts = <<>> THEN <<>>
    ELSE IF Len(parts) = 1 THEN parts[1]
    ELSE parts[1] \o sep \o Join(Tail(parts), sep)

\* JSON.stringify(v, null, gap) for a value at nesting depth: on one line
\* when gap is 0, else one element a line, indented gap spaces a level.
RECURSIVE JSONstringify(_, _, _)
JSONstringify(v, gap, depth) ==
    IF v.kind = "number" THEN v.digits
    ELSE IF v.items = <<>> THEN <<"[", "]">>
    ELSE LET parts == [i \in 1..Len(v.items) |->
                          JSONstringify(v.items[i], gap, depth + 1)]
             Indent(n) == [i \in 1..n |-> " "]
         IN  IF gap = 0
               THEN <<"[">> \o Join(parts, <<",">>) \o <<"]">>
               ELSE <<"[", "\n">> \o Indent(gap * (depth + 1))
                    \o Join(parts, <<",", "\n">> \o Indent(gap * (depth + 1)))
                    \o <<"\n">> \o Indent(gap * depth) \o <<"]">>

\* POST /api/json-format with the catch block answering 500, as the catch
\* blocks of the other handlers do.
jsonFormatCatch500(body) ==
    LET json == body.json
        minify == body.minify
    IN  IF ~Truthy(json) THEN Response(400, "Missing json", Null, "")
        ELSE LET e == IF json.type = "string" THEN JSONparse(json.text)
                      ELSE Parsed(json.json, <<>>)
             IN  IF e.ok
                   THEN Response(200, "",
                            Json([result |-> Str(JSONstringify(e.value,
                                        IF Truthy(minify) THEN 0 ELSE 2, 0)),
                                  valid |-> TRUE, endpoint |-> "json-format"]), "")
                   ELSE Response(500, "Unexpected token", Null, "")

\* POST /api/json-format: 400 for a falsy json; a string is parsed and any
\* other value taken as it is, then written out again, minified or indented
\* by two; the catch block answers a SyntaxError with valid: false.
jsonFormat(body) ==
    LET json == body.json
        minify == body.minify
    IN  IF ~Truthy(json) THEN Response(400, "Missing json", Null, "")
        ELSE LET e == IF json.type = "string" THEN JSONparse(json.text)
                      ELSE Parsed(json.json, <<>>)
             IN  IF e.ok
                   THEN Response(200, "",
                            Json([result |-> Str(JSONstringify(e.value,
                                        IF Truthy(minify) THEN 0 ELSE 2, 0)),
                                  valid |-> TRUE, endpoint |-> "json-format"]), "")
                   ELSE Response(200, "Unexpected token",
                            Json([result |-> Null, valid |-> FALSE,
                                  endpoint |-> "json-format"]), "")

\* A string given by one token, as the name of a hash algorithm is.
Name(a) == [type |-> "string", text |-> <<a>>]

\* crypto.createHash(algo).update(text).digest("hex"), kept as the
\* algorithm and the text it was computed from.
Digest(algo, text) == [type |-> "digest", text |-> text.text, algorithm |-> algo]

\* POST /api/hash without the test of the algorithm against the list.
hashAnyAlgorithm(body) ==
    LET text == body.text
        algorithm == body.algorithm
    IN  IF ~Truthy(text) THEN Response(400, "Missing text", Null, "")
        ELSE LET algo == IF Truthy(algorithm) THEN algorithm ELSE Name("sha256")
             IN  IF text.type # "string" \/ algo.type # "string"
                   THEN Response(500, "The \"data\" argument must be of type string", Null, "")
                 ELSE Response(200, "",
                          Json([hash |-> Digest(algo.text[1], text),
                                algorithm |-> algo.text[1], endpoint |-> "hash"]), "")

\* POST /api/hash: 400 for a falsy text; algorithm || "sha256"; 400 for an
\* algorithm that is not in the list; the digest of the text otherwise, and
\* 500 from the catch block when update() throws on a text that is no string.
hash(body) ==
    LET text == body.text
        algorithm == body.algorithm
    IN  IF ~Truthy(text) THEN Response(400, "Missing text", Null, "")
        ELSE LET algo == IF Truthy(algorithm) THEN algorithm ELSE Name("sha256")
             IN  IF algo \notin {Name("md5"), Name("sha256"), Name("sha512")}
                   THEN Response(400, "Use: md5, sha256, sha512", Null, "")
                 ELSE IF text.type # "string"
                   THEN Response(500, "The \"data\" argument must be of type string", Null, "")
                 ELSE Response(200, "",
                          Json([hash |-> Digest(algo.text[1], text),
                                algorithm |-> algo.text[1], endpoint |-> "hash"]), "")

\* The character classes of the regular expressions [A-Z], [a-z] and [0-9].
UpperCase ==
    <<"A", "B", "C", "D", "E", "F", "G", "H", "I", "J", "K", "L", "M",
      "N", "O", "P", "Q", "R", "S", "T", "U", "V", "W", "X", "Y", "Z">>
LowerCase ==
    <<"a", "b", "c", "d", "e", "f", "g", "h", "i", "j", "k", "l", "m",
      "n", "o", "p", "q", "r", "s", "t", "u", "v", "w", "x", "y", "z">>
Digits == {"0", "1", "2", "3", "4", "5", "6", "7", "8", "9"}

Range(seq) == {seq[i] : i \in 1..Len(seq)}

\* String.prototype.toLowerCase.
ToLowerCase(s) ==
    [i \in 1..Len(s) |->
        IF s[i] \in Range(UpperCase)
          THEN LowerCase[CHOOSE k \in 1..Len(UpperCase) : UpperCase[k] = s[i]]
          ELSE s[i]]

\* The list the noCommon check looks the lowercased password up in.
CommonPasswords ==
    {<<"p", "a", "s", "s", "w", "o", "r", "d">>,
     <<"1", "2", "3", "4", "5", "6">>,
     <<"q", "w", "e", "r", "t", "y">>,
     <<"a", "d", "m", "i", "n">>,
     <<"l", "e", "t", "m", "e", "i", "n">>,
     <<"w", "e", "l", "c", "o", "m", "e">>}

\* const checks = { ... } for a password that is a string.
Checks(p) ==
    [length8 |-> Len(p) >= 8,
     length12 |-> Len(p) >= 12,
     length16 |-> Len(p) >= 16,
     uppercase |-> \E i \in 1..Len(p) : p[i] \in Range(UpperCase),
     lowercase |-> \E i \in 1..Len(p) : p[i] \in Range(LowerCase),
     numbers |-> \E i \in 1..Len(p) : p[i] \in Digits,
     symbols |-> \E i \in 1..Len(p) :
                    p[i] \notin Range(UpperCase) \cup Range(LowerCase) \cup Digits,
     noCommon |-> ToLowerCase(p) \notin CommonPasswords]

\* score after Object.values(checks).forEach(v => { if (v) score += 12.5 }),
\* counted in halves of a point: 25 halves for every check that holds.
ScoreHalves(checks) == 25 * Cardinality({k \in DOMAIN checks : checks[k]})

\* Math.round of a number of halves: the nearest integer, a half rounded up.
MathRound(halves) == (halves + 1) \div 2

\* The strength with a score of exactly 75, 50 or 25 left in the band below.
StrengthAbove(halves) ==
    IF halves > 150 THEN "strong"
    ELSE IF halves > 100 THEN "medium"
    ELSE IF halves > 50 THEN "weak"
    ELSE "very weak"

\* score >= 75 ? "strong" : score >= 50 ? "medium" : score >= 25 ? "weak"
\* : "very weak", on the score in halves.
Strength(halves) ==
    IF halves >= 150 THEN "strong"
    ELSE IF halves >= 100 THEN "medium"
    ELSE IF halves >= 50 THEN "weak"
    ELSE "very weak"

\* POST /api/password-strength: 400 for a falsy password; the eight checks,
\* the rounded score and the strength; 500 from the catch block when the
\* password is no string (it has no toLowerCase).
passwordStrength(body) ==
    LET password == body.password
    IN  IF ~Truthy(password) THEN Response(400, "Missing password", Null, "")
        ELSE IF password.type # "string"
          THEN Response(500, "password.toLowerCase is not a function", Null, "")
        ELSE LET checks == Checks(password.text)
                 score == ScoreHalves(checks)
             IN  Response(200, "",
                     Json([score |-> MathRound(score), strength |-> Strength(score),
                           checks |-> checks, endpoint |-> "password-strength"]), "")

\* req.body of a request to one of the three handlers: of the fields they
\* destructure from it, those sent as they were sent, the others undefined.
UtilityBody(sent) ==
    [f \in {"json", "minify", "text", "algorithm", "password"} |->
        IF f \in DOMAIN sent THEN sent[f] ELSE Undefined]

UtilityRoutes == {"/api/json-format", "/api/hash", "/api/password-strength"}

\* The handler of one of the three routes runs: it has no await, and writes
\* its answer at once.
Compute(r) ==
    /\ Travelling(r)
    /\ NextLayer(r) # 0
    /\ Stack[NextLayer(r)] \in UtilityRoutes
    /\ layer' = [layer EXCEPT ![r] = NextLayer(r)]
    /\ LET path == httpReq[r].path
           body == httpReq[r].body
       IN  written' = [written EXCEPT ![r] =
              CASE path = "/api/json-format" -> jsonFormat(body)
                [] path = "/api/hash" -> hash(body)
                [] path = "/api/password-strength" -> passwordStrength(body)]
    /\ UNCHANGED <<httpReq, abandoned>>
    /\ UNCHANGED dispatchVars

\* ------------------------------------------------- the flag-driven variant
\* The earlier callAI (src/server.js, lines 1-568): one provider, chosen by
\* the environment, and no fallback.

\* const AI_PROVIDER = process.env.AI_PROVIDER || "openrouter"
AI_PROVIDER ==
    IF env.AI_PROVIDER \in {Absent, ""} THEN "openrouter" ELSE env.AI_PROVIDER

\* The provider functions of this variant test no key before their fetch.
callOpenRouterFlag(p) == Fetch(Request("openrouter", "openrouter/free", p))
callGeminiFlag(p) == Fetch(Request("gemini", "gemini-2.0-flash", p))
callHuggingFace(p) ==
    Fetch(Request("huggingface", "mistralai/Mistral-7B-Instruct-v0.3", p))

\* callAIFlag with Gemini as the provider of every unrecognised value.
callAIFlagGeminiDefault(p) ==
    CASE AI_PROVIDER = "openrouter" -> Invocation("openrouter", callOpenRouterFlag(p))
      [] AI_PROVIDER = "huggingface" -> Invocation("huggingface", callHuggingFace(p))
      [] OTHER -> Invocation("gemini", callGeminiFlag(p))

\* callAI(prompt) of this variant, up to the await of the provider it calls.
callAIFlag(p) ==
    CASE AI_PROVIDER = "gemini" -> Invocation("gemini", callGeminiFlag(p))
      [] AI_PROVIDER = "huggingface" -> Invocation("huggingface", callHuggingFace(p))
      [] OTHER -> Invocation("openrouter", callOpenRouterFlag(p))

\* A non-2xx response with a text in its body.
HttpErrorText(st, text) == [kind |-> "http", status |-> st, body |-> text, value |-> Null]

FlagErrorPrefix ==
    [gemini |-> "Gemini error: ", huggingface |-> "HuggingFace error: ",
     openrouter |-> "OpenRouter error: "]

\* The rest of a provider function of this variant, from the resolution of
\* its fetch on.  JSON without the text path is, for HuggingFace, an object
\* without generated_text: the function returns undefined.
SettleFlag(name, resp) ==
    IF resp.kind = "reject" THEN Threw(Error("fetch failed", 0))
    ELSE IF ~Ok(resp) THEN Threw(Error(FlagErrorPrefix[name] \o resp.body, 0))
    ELSE IF resp.body = "notjson" THEN Threw(Error("Unexpected token", 0))
    ELSE IF resp.body = "nopath"
         THEN IF name = "huggingface" THEN Returned(Null)
              ELSE Threw(Error("Cannot read properties of undefined", 0))
    ELSE Returned(resp.value)

\* A route handler calls callAI(p): the one provider's fetch is pending.
StartFlag(r, p) ==
    /\ pc[r] = "idle"
    /\ dispatched < MaxDispatches
    /\ dispatched' = dispatched + 1
    /\ prompt' = [prompt EXCEPT ![r] = p]
    /\ tier' = [tier EXCEPT ![r] = Absent]
    /\ received' = [received EXCEPT ![r] = <<>>]
    /\ Install(r, [pc |-> "awaiting", idx |-> 0, inflight |-> {callAIFlag(p).name},
                   invoked |-> <<callAIFlag(p)>>, logged |-> <<>>,
                   outcome |-> NoOutcome])
    /\ UNCHANGED env

\* The pending fetch resolves: callAI returns what the provider returned, or
\* the provider's error leaves callAI as it is.
ResolveFlag(r, resp) ==
    /\ pc[r] = "awaiting"
    /\ \E name \in inflight[r] :
       LET s == SettleFlag(name, resp)
       IN  /\ received' = [received EXCEPT ![r] = Append(@, [name |-> name, response |-> resp])]
           /\ Install(r, [pc |-> IF s.kind = "return" THEN "returned" ELSE "threw",
                          idx |-> 0, inflight |-> {}, invoked |-> invoked[r],
                          logged |-> logged[r],
                          outcome |-> IF s.kind = "return" THEN Value(s.value)
                                      ELSE [kind |-> "error", value |-> Null,
                                            message |-> s.error.message]])
    /\ UNCHANGED <<env, prompt, tier, dispatched>>

\* The handler resumes after await callAI(...): res.json({ result, endpoint })
\* or the catch block's 500 with err.message.
ReplyFlag(r) ==
    /\ Respond(r)
    /\ written' = [written EXCEPT ![r] =
                 IF outcome[r].kind = "value"
                   THEN Response(200, "", outcome[r].value, "")
                   ELSE Response(500, outcome[r].message, Null, "")]
    /\ UNCHANGED <<httpReq, layer, abandoned>>

\* --------------------------------------------------------- specifications
Prompts == {"What is the capital of France?", "2+2?"}

\* Tier arguments: none, the four tiers, and unrecognised ones.
TierInputs ==
    {Absent, "lite", "standard", "pro", "vision", "turbo", "", "constructor"}

Envs == [GEMINI_API_KEY : BOOLEAN, OPENROUTER_API_KEY : BOOLEAN]

\* No request is being served.
Quiet ==
    /\ httpReq = [r \in Requests |-> NoHttpRequest]
    /\ layer = [r \in Requests |-> 0]
    /\ written = [r \in Requests |-> NoResponse]
    /\ abandoned = [r \in Requests |-> FALSE]

Init ==
    /\ Quiet
    /\ env \in Envs
    /\ pc = [r \in Requests |-> "idle"]
    /\ prompt = [r \in Requests |-> ""]
    /\ tier = [r \in Requests |-> ""]
    /\ idx = [r \in Requests |-> 0]
    /\ inflight = [r \in Requests |-> {}]
    /\ invoked = [r \in Requests |-> <<>>]
    /\ received = [r \in Requests |-> <<>>]
    /\ logged = [r \in Requests |-> <<>>]
    /\ outcome = [r \in Requests |-> NoOutcome]
    /\ history = {}
    /\ dispatched = 0

\* One request at a time, every tier argument and every response.
Dispatch ==
    /\ \E p \in Prompts, t \in TierInputs : StartDispatch(1, p, t)
    /\ UNCHANGED httpVars
Arrive ==
    /\ \E resp \in Responses : Resolve(1, resp)
    /\ UNCHANGED httpVars
Answer == Respond(1) /\ UNCHANGED httpVars

Next == Dispatch \/ Arrive \/ Answer

Spec == Init /\ [][Next]_vars

\* Several requests in flight together, their steps interleaved in every
\* order; a transport error and a proper text as responses.
ConcurrentResponses == {Reject, Content(Str(<<"a">>))}
ConcurrentTiers == {Absent, "pro"}

ConcurrentDispatch ==
    /\ \E r \in Requests, p \in Prompts, t \in ConcurrentTiers : StartDispatch(r, p, t)
    /\ UNCHANGED httpVars
ConcurrentArrive ==
    /\ \E r \in Requests, resp \in ConcurrentResponses : Resolve(r, resp)
    /\ UNCHANGED httpVars
ConcurrentAnswer ==
    /\ \E r \in Requests : Respond(r)
    /\ UNCHANGED httpVars

NextConcurrent == ConcurrentDispatch \/ ConcurrentArrive \/ ConcurrentAnswer

\* Every key is configured, so every provider call reaches the network.
InitConcurrent ==
    /\ Init
    /\ env = [GEMINI_API_KEY |-> TRUE, OPENROUTER_API_KEY |-> TRUE]

SpecConcurrent == InitConcurrent /\ [][NextConcurrent]_vars

\* The HTTP layer in front of callAI: one request at a time on every POST
\* route, with every payment proof and every filling of the required
\* fields; a transport error, an empty text and a proper text as provider
\* responses.
GatewayPaths == {Handlers[i] : i \in 1..Len(Handlers)}
GatewayResponses == {Reject, Content(Str(<<>>)), Content(Str(<<"a">>))}

GatewayReceive ==
    \E path \in GatewayPaths, proof \in Proofs :
        \E sent \in [RequiredFields(path) -> FieldValues] :
            Receive(1, HttpRequest(path, proof, Body(sent)))
GatewayParse == ParseBody(1)
GatewayGate == Gate(1)
GatewayHandle == Handle(1)
GatewayDeliver == \E resp \in GatewayResponses : Deliver(1, resp)
GatewayReply == Reply(1)
GatewayAbandon == Abandon(1)
GatewayFinish == Finish(1)

NextGateway ==
    \/ GatewayReceive \/ GatewayParse \/ GatewayGate \/ GatewayHandle
    \/ GatewayDeliver \/ GatewayReply \/ GatewayAbandon \/ GatewayFinish

SpecGateway == Init /\ [][NextGateway]_vars

\* Paid requests to the AI routes whose bodies also name a tier and a model
\* of the client's choosing, with every key configured.
ClientTiers == {Absent, "lite", "pro"}
ClientModels == {Absent, "qwen-qwq-32b"}

TieredReceive ==
    \E path \in AiRoutes, t \in ClientTiers, m \in ClientModels :
        \E sent \in [RequiredFields(path) -> {"", "Paris"}] :
            Receive(1, HttpRequest(path, "valid",
                                   Body(sent @@ [tier |-> t, model |-> m])))

NextTiered ==
    \/ TieredReceive \/ GatewayParse \/ GatewayGate \/ GatewayHandle
    \/ GatewayDeliver \/ GatewayReply \/ GatewayFinish

SpecTiered == InitConcurrent /\ [][NextTiered]_vars

\* Discovery: GET requests to the discovery paths beside POST requests to
\* the paid paths, with every payment proof and a body without fields.
DiscoveryReceive ==
    \E path \in DiscoveryPaths \cup GatewayPaths, proof \in Proofs :
        Receive(1, HttpRequest(path, proof, Body(<<>>)))
DiscoveryAnswer == Discover(1)

NextDiscovery ==
    \/ DiscoveryReceive \/ GatewayParse \/ GatewayGate \/ GatewayHandle
    \/ DiscoveryAnswer \/ GatewayAbandon \/ GatewayFinish

SpecDiscovery == Init /\ [][NextDiscovery]_vars

\* The utility handlers: requests to /api/json-format, /api/hash and
\* /api/password-strength with every payment proof and bodies of JS values,
\* with every key configured.
MaxJson == 3         \* longest json text, in characters
MaxPassword == 17    \* longest generated password, in characters

\* Passwords: one to four kinds of character repeated up to a length, the
\* common passwords, and those with a capital first letter or a digit added.
Passwords ==
    LET ClassChars == <<"A", "a", "1", "!">>
        Repeat(unit, n) == [i \in 1..n |-> unit[((i - 1) % Len(unit)) + 1]]
        Capitalize(w) ==
            IF w[1] \in Range(LowerCase)
              THEN [w EXCEPT ![1] =
                      UpperCase[CHOOSE k \in 1..Len(LowerCase) : LowerCase[k] = w[1]]]
              ELSE w
    IN  {Repeat(SelectSeq(ClassChars, LAMBDA c : c \in S), n) :
            S \in (SUBSET Range(ClassChars)) \ {{}}, n \in 1..MaxPassword}
            \cup CommonPasswords
            \cup {Capitalize(w) : w \in CommonPasswords}
            \cup {w \o <<"1">> : w \in CommonPasswords}

\* A request arrives: a json that is undefined, null, an array or any text
\* up to MaxJson characters, with or without minify; a text and an algorithm
\* that are undefined, strings or an object; a password that is undefined,
\* an object or a string.
UtilityReceive ==
    /\ ~Arrived(1)
    /\ \E proof \in Proofs :
        \/ \E j \in {Undefined, Null, Json(Arr(<<Num(<<"1">>)>>))}
                        \cup {Str(s) : s \in UNION {[1..k -> JsonChars] : k \in 0..MaxJson}},
               m \in {Undefined, Obj} :
              Receive(1, HttpRequest("/api/json-format", proof,
                                     UtilityBody([json |-> j, minify |-> m])))
        \/ \E t \in {Undefined, Str(<<>>), Str(<<"a">>), Obj},
               a \in {Undefined, Null, Obj, Str(<<>>), Name("md5"), Name("sha256"),
                      Name("sha512"), Name("sha1"), Name("MD5")} :
              Receive(1, HttpRequest("/api/hash", proof,
                                     UtilityBody([text |-> t, algorithm |-> a])))
        \/ \E p \in {Undefined, Obj} \cup {Str(w) : w \in Passwords \cup {<<>>}} :
              Receive(1, HttpRequest("/api/password-strength", proof,
                                     UtilityBody([password |-> p])))

NextUtility ==
    \/ UtilityReceive \/ GatewayParse \/ GatewayGate \/ Compute(1)
    \/ GatewayFinish

SpecUtility == InitConcurrent /\ [][NextUtility]_vars

\* The same with every pending provider call resolving in the end and every
\* handler resumed once its await has settled.
LiveGateway ==
    SpecGateway /\ WF_vars(GatewayDeliver) /\ WF_vars(GatewayReply)

\* The flag-driven variant: one request at a time, with every setting of
\* AI_PROVIDER in the environment and every response of the provider.
FlagValues == {Absent, "", "gemini", "huggingface", "openrouter", "groq", "Gemini"}
FlagResponses ==
    {Reject, NotJson, NoPath} \cup {HttpErrorText(st, "overloaded") : st \in ErrorStatuses}
        \cup {Content(v) : v \in {Null, Str(<<>>), Str(<<"a">>)}}

InitFlag ==
    /\ Quiet
    /\ env \in [AI_PROVIDER : FlagValues]
    /\ pc = [r \in Requests |-> "idle"]
    /\ prompt = [r \in Requests |-> ""]
    /\ tier = [r \in Requests |-> ""]
    /\ idx = [r \in Requests |-> 0]
    /\ inflight = [r \in Requests |-> {}]
    /\ invoked = [r \in Requests |-> <<>>]
    /\ received = [r \in Requests |-> <<>>]
    /\ logged = [r \in Requests |-> <<>>]
    /\ outcome = [r \in Requests |-> NoOutcome]
    /\ history = {}
    /\ dispatched = 0

FlagDispatch ==
    /\ written[1] = NoResponse
    /\ \E p \in Prompts : StartFlag(1, p)
    /\ UNCHANGED httpVars
FlagArrive ==
    /\ \E resp \in FlagResponses : ResolveFlag(1, resp)
    /\ UNCHANGED httpVars
FlagAnswer == ReplyFlag(1)
FlagFinish == Finish(1)

NextFlag == FlagDispatch \/ FlagArrive \/ FlagAnswer \/ FlagFinish

SpecFlag == InitFlag /\ [][NextFlag]_vars

\* ================================================================ claims
\* The vocabulary of the claims, stated on what a dispatch was given and what
\* it did, not on how callAI decides.
Chain == <<"groq", "gemini", "openrouter">>
ChainPosition(name) == CHOOSE i \in 1..Len(Chain) : Chain[i] = name
Names(seq) == [i \in 1..Len(seq) |-> seq[i].name]
AggregateMessage == "All AI providers failed. Please try again later."

\* A text with no character other than whitespace (the empty text too).
BlankText(s) == \A i \in 1..Len(s) : s[i] = " "

\* The response carries a text, and the text is blank / is not blank.
HasText(resp) ==
    resp.kind = "http" /\ resp.status = 200 /\ resp.body = "content"
        /\ resp.value.type = "string"
BlankResponse(resp) == HasText(resp) /\ BlankText(resp.value.text)
GoodResponse(resp) == HasText(resp) /\ ~BlankText(resp.value.text)

\* The i-th provider call of dispatch r failed / succeeded.
FailedAt(r, i) ==
    \/ ~invoked[r][i].fetch
    \/ \E j \in 1..Len(received[r]) :
          /\ received[r][j].name = invoked[r][i].name
          /\ ~GoodResponse(received[r][j].response)
SucceededAt(r, i) ==
    /\ invoked[r][i].fetch
    /\ \E j \in 1..Len(received[r]) :
          /\ received[r][j].name = invoked[r][i].name
          /\ GoodResponse(received[r][j].response)
ResponseOf(r, name) ==
    received[r][CHOOSE j \in 1..Len(received[r]) : received[r][j].name = name].response

\* C1: when providers 1..k of the chain fail and provider k+1 returns a
\* non-blank text, callAI returns exactly that text, has called providers
\* 1..k+1 once each in chain order, and calls no provider after k+1.
C1_FirstSuccessWins ==
    \A r \in Requests : \A n \in 1..Len(invoked[r]) :
        ((\A i \in 1..(n - 1) : FailedAt(r, i)) /\ SucceededAt(r, n)) =>
            /\ pc[r] = "returned"
            /\ outcome[r].kind = "value"
            /\ outcome[r].value = ResponseOf(r, invoked[r][n].name).value
            /\ Names(invoked[r]) = SubSeq(Chain, 1, n)
            /\ inflight[r] = {}

\* Two providers failed, by an HTTP error and by a blank text, and the third
\* one's text was returned.
C1_Witness ==
    /\ pc[1] = "returned"
    /\ Len(received[1]) = 3
    /\ received[1][1].response = HttpError(503)
    /\ BlankResponse(received[1][2].response)
    /\ outcome[1].value = received[1][3].response.value

\* C2: when every provider of the chain fails, callAI throws the aggregate
\* error, and in a dispatch that ended so every provider was called once.
AllProvidersFailed(r) ==
    \A k \in 1..Len(Chain) :
        \E i \in 1..Len(invoked[r]) : invoked[r][i].name = Chain[k] /\ FailedAt(r, i)

C2_AllFailAggregateError ==
    \A r \in Requests :
        /\ AllProvidersFailed(r) =>
              /\ pc[r] = "threw"
              /\ outcome[r].kind = "error"
              /\ outcome[r].message = AggregateMessage
        /\ pc[r] = "threw" =>
              /\ AllProvidersFailed(r)
              /\ Len(invoked[r]) = Len(Chain)
              /\ \A i, j \in 1..Len(invoked[r]) :
                    invoked[r][i].name = invoked[r][j].name => i = j
              /\ \A i, j \in 1..Len(received[r]) :
                    received[r][i].name = received[r][j].name => i = j

C2_Witness ==
    /\ pc[1] = "threw"
    /\ Len(received[1]) = 3
    /\ outcome[1].message = AggregateMessage

\* C3: a provider whose text is empty or only whitespace counts as failed:
\* its text is not what callAI returns, and the next provider of the chain
\* is called, or the aggregate error thrown if it was the last one.
C3_BlankTextFallsThrough ==
    \A r \in Requests : \A j \in 1..Len(received[r]) :
        BlankResponse(received[r][j].response) =>
            LET k == ChainPosition(received[r][j].name)
            IN  /\ pc[r] \in {"awaiting", "returned", "threw"}
                /\ outcome[r].kind = "value" => ~BlankText(outcome[r].value.text)
                /\ IF k < Len(Chain)
                     THEN \E i \in 1..Len(invoked[r]) : invoked[r][i].name = Chain[k + 1]
                     ELSE pc[r] = "threw" /\ outcome[r].message = AggregateMessage

\* The first provider returned whitespace, the last one the empty text.
C3_Witness ==
    /\ pc[1] = "threw"
    /\ Len(received[1]) = 3
    /\ received[1][1].response = Content(Str(<<" ">>))
    /\ received[1][3].response = Content(Str(<<>>))

\* C4: every failed provider of a dispatch, whether it threw or returned a
\* blank text, has a log line naming it before the next provider is tried,
\* and a dispatch with k failed providers has written exactly k log lines.
C4_EveryFailureLogged ==
    \A r \in Requests :
        /\ \A i \in 1..Len(invoked[r]) :
              FailedAt(r, i) =>
                  \E l \in 1..Len(logged[r]) : logged[r][l].name = invoked[r][i].name
        /\ Len(logged[r]) = Cardinality({i \in 1..Len(invoked[r]) : FailedAt(r, i)})

\* C5: for a tier argument that is none of lite, standard, pro and vision
\* (or is absent), the primary provider is called, no error comes from the
\* tier, and the model sent is llama-3.3-70b-versatile.
C5_UnknownTierUsesDefault ==
    \A r \in Requests :
        (pc[r] # "idle" /\ tier[r] \notin {"lite", "standard", "pro", "vision"}) =>
            /\ Len(invoked[r]) >= 1
            /\ invoked[r][1].name = "groq"
            /\ invoked[r][1].fetch
            /\ invoked[r][1].request.model = "llama-3.3-70b-versatile"

\* C6: of two dispatches with the same prompt, whatever their tiers, the
\* calls made to gemini and to openrouter are the same: each carries the
\* prompt and the provider's own fixed model.
FallbackModel == [gemini |-> "gemini-2.0-flash", openrouter |-> "openrouter/free"]

C6_TierOnlyReachesPrimary ==
    \A r1, r2 \in Requests :
        \A i \in 1..Len(invoked[r1]), j \in 1..Len(invoked[r2]) :
            (/\ prompt[r1] = prompt[r2]
             /\ invoked[r1][i].name = invoked[r2][j].name
             /\ invoked[r1][i].name \in DOMAIN FallbackModel) =>
                /\ invoked[r1][i] = invoked[r2][j]
                /\ invoked[r1][i].request.prompt = prompt[r1]
                /\ invoked[r1][i].request.model = FallbackModel[invoked[r1][i].name]

\* Two dispatches in flight with one prompt and different tiers: their groq
\* calls differ, and both have called gemini.
C6_Witness ==
    /\ prompt[1] = prompt[2]
    /\ tier[1] = "pro" /\ tier[2] = Absent
    /\ Len(invoked[1]) >= 2 /\ Len(invoked[2]) >= 2
    /\ invoked[1][1].request.model # invoked[2][1].request.model
    /\ invoked[1][2].name = "gemini" /\ invoked[2][2].name = "gemini"

\* C7: the error thrown on exhaustion is one constant, whatever made each
\* provider fail.
C7_AggregateErrorIsConstant ==
    \A r \in Requests :
        /\ pc[r] = "threw" => outcome[r].kind = "error"
        /\ outcome[r].kind = "error" =>
              outcome[r] = [kind |-> "error", value |-> Null, message |-> AggregateMessage]

\* Exhaustion by an HTTP status, a missing key and an empty text.
C7_Witness ==
    /\ pc[1] = "threw"
    /\ ~env.GEMINI_API_KEY
    /\ Len(received[1]) = 2
    /\ received[1][1].response = HttpError(503)
    /\ received[1][2].response = Content(Str(<<>>))

\* C8: a dispatch has at most one provider call in flight, the one it made
\* last, and made each call only after every earlier one had failed.
FetchedNames(r) == {invoked[r][i].name : i \in {k \in 1..Len(invoked[r]) : invoked[r][k].fetch}}
ReceivedNames(r) == {received[r][j].name : j \in 1..Len(received[r])}

C8_StrictlySequential ==
    \A r \in Requests :
        /\ Cardinality(inflight[r]) <= 1
        /\ inflight[r] = FetchedNames(r) \ ReceivedNames(r)
        /\ inflight[r] # {} => inflight[r] = {invoked[r][Len(invoked[r])].name}
        /\ \A i \in 1..(Len(invoked[r]) - 1) : FailedAt(r, i)

\* The third provider's call is in flight after two resolved failures.
C8_Witness ==
    /\ pc[1] = "awaiting"
    /\ inflight[1] = {"openrouter"}
    /\ Len(received[1]) = 2
    /\ Len(invoked[1]) = 3

\* C9: what a dispatch returns or throws, and which providers it called,
\* follow from the responses its own calls received, whatever the other
\* dispatches in flight do.
ExpectedOutcome(rec) ==
    IF rec # <<>> /\ GoodResponse(rec[Len(rec)].response)
        THEN [kind |-> "value", value |-> rec[Len(rec)].response.value, message |-> ""]
        ELSE [kind |-> "error", value |-> Null, message |-> AggregateMessage]

ExpectedCalls(rec) ==
    IF rec # <<>> /\ GoodResponse(rec[Len(rec)].response)
        THEN SubSeq(Chain, 1, ChainPosition(rec[Len(rec)].name))
        ELSE Chain

C9_DispatchesIndependent ==
    \A r \in Requests :
        pc[r] \in {"returned", "threw"} =>
            /\ outcome[r] = ExpectedOutcome(received[r])
            /\ Names(invoked[r]) = ExpectedCalls(received[r])
            /\ \A j \in 1..(Len(received[r]) - 1) : ~GoodResponse(received[r][j].response)

\* One dispatch has returned after a fallback while another, started with
\* the same prompt, has exhausted the chain.
C9_Witness ==
    /\ pc[1] = "returned" /\ Len(invoked[1]) = 2
    /\ pc[2] = "threw"
    /\ prompt[1] = prompt[2]

\* C10: whatever failed in earlier dispatches, a dispatch calls the
\* providers in the order groq, gemini, openrouter.
C10_ChainIsStatic ==
    \A r \in Requests :
        /\ Len(invoked[r]) <= 3
        /\ Names(invoked[r]) = SubSeq(<<"groq", "gemini", "openrouter">>, 1, Len(invoked[r]))

\* A second dispatch, started after groq and openrouter had failed in the
\* first, has called groq and then gemini.
C10_Witness ==
    /\ dispatched = 2
    /\ {"groq", "openrouter"} \subseteq history
    /\ pc[1] = "awaiting"
    /\ Len(received[1]) = 0
    /\ Names(invoked[1]) = <<"groq">>

\* What dispatch r is doing: its frame of callAI.
Frame(r) ==
    <<pc[r], idx[r], inflight[r], invoked[r], received[r], logged[r], outcome[r]>>

\* C12: callAI has no timeout of its own: a dispatch waiting for a provider
\* does not return, throw or call another provider until the response of
\* that very provider arrives.
C12_StalledUntilResponse ==
    [][\A r \in Requests :
          pc[r] = "awaiting" =>
              \/ Frame(r)' = Frame(r)
              \/ /\ Len(received'[r]) = Len(received[r]) + 1
                 /\ received'[r][Len(received'[r])].name \in inflight[r]]_vars

\* A dispatch waiting for its second provider after the first failed.
C12_Witness ==
    /\ pc[1] = "awaiting"
    /\ inflight[1] = {"gemini"}
    /\ Len(received[1]) = 1
    /\ outcome[1] = NoOutcome

\* C15: a rejected fetch and a response with a status outside 200..299 fail
\* that provider only: the error is caught and logged in callAI, is not what
\* callAI throws, and the next provider is called (the aggregate error
\* thrown after the last).
TransportOrStatus(resp) ==
    resp.kind = "reject" \/ (resp.kind = "http" /\ (resp.status < 200 \/ resp.status > 299))

C15_TransportAndStatusCaught ==
    \A r \in Requests : \A j \in 1..Len(received[r]) :
        TransportOrStatus(received[r][j].response) =>
            LET name == received[r][j].name
                k == ChainPosition(name)
            IN  /\ \E l \in 1..Len(logged[r]) :
                      /\ logged[r][l].name = name
                      /\ logged[r][l].error.status = received[r][j].response.status
                /\ outcome[r].kind = "error" => outcome[r].message = AggregateMessage
                /\ pc[r] \in {"awaiting", "returned", "threw"}
                /\ IF k < Len(Chain)
                     THEN \E i \in 1..Len(invoked[r]) : invoked[r][i].name = Chain[k + 1]
                     ELSE pc[r] = "threw"

\* Groq's fetch was rejected, gemini answered 503, and openrouter's text was
\* returned.
C15_Witness ==
    /\ pc[1] = "returned"
    /\ Len(received[1]) = 3
    /\ received[1][1].response = Reject
    /\ received[1][2].response = HttpError(503)

\* C16: a provider without its API key fails like one that answers with an
\* HTTP error: gemini and openrouter make no network call then, the loop
\* goes on, and what the dispatch returns or throws and which providers it
\* calls are what they are with an HTTP error in that provider's place.
KeySet == [gemini |-> env.GEMINI_API_KEY, openrouter |-> env.OPENROUTER_API_KEY]

Filled(r) ==
    [i \in 1..Len(invoked[r]) |->
        [name |-> invoked[r][i].name,
         response |-> IF invoked[r][i].fetch THEN ResponseOf(r, invoked[r][i].name)
                      ELSE HttpError(503)]]

C16_MissingKeyLikeHttpError ==
    \A r \in Requests :
        /\ \A i \in 1..Len(invoked[r]) :
              LET name == invoked[r][i].name
              IN  (name \in DOMAIN KeySet /\ ~KeySet[name]) =>
                      /\ ~invoked[r][i].fetch
                      /\ name \notin inflight[r]
                      /\ \A j \in 1..Len(received[r]) : received[r][j].name # name
                      /\ \E l \in 1..Len(logged[r]) : logged[r][l].name = name
                      /\ IF i < Len(Chain) THEN Len(invoked[r]) > i ELSE pc[r] = "threw"
        /\ pc[r] \in {"returned", "threw"} =>
              /\ outcome[r] = ExpectedOutcome(Filled(r))
              /\ Names(invoked[r]) = ExpectedCalls(Filled(r))

\* Gemini has no key: after groq's failure openrouter's text is returned.
C16_Witness ==
    /\ ~env.GEMINI_API_KEY /\ env.OPENROUTER_API_KEY
    /\ pc[1] = "returned"
    /\ Names(invoked[1]) = Chain
    /\ Names(received[1]) = <<"groq", "openrouter">>

\* C17: nothing is cached and the chain is walked once: every dispatch calls
\* groq itself, returns only a text one of its own calls received, and makes
\* at most three provider calls.
C17_NoCacheOnePass ==
    \A r \in Requests :
        /\ pc[r] # "idle" =>
              /\ Len(invoked[r]) >= 1
              /\ invoked[r][1].name = "groq"
              /\ invoked[r][1].fetch
              /\ invoked[r][1].request.prompt = prompt[r]
        /\ pc[r] \in {"returned", "threw"} => Len(received[r]) >= 1
        /\ pc[r] = "returned" =>
              outcome[r].value = received[r][Len(received[r])].response.value
        /\ Len(invoked[r]) <= Len(Chain)
        /\ Len(received[r]) <= Len(Chain)

\* A dispatch has returned, and another with the same prompt and tier has
\* its own groq call in flight.
C17_Witness ==
    /\ pc[1] = "returned"
    /\ pc[2] = "awaiting"
    /\ prompt[1] = prompt[2] /\ tier[1] = tier[2]
    /\ inflight[2] = {"groq"}


\* ------------------------------------------------- claims on the HTTP layer
\* The route handler of the request at slot r has run.
HandlerRan(r) ==
    /\ Arrived(r)
    /\ layer[r] \in 1..Len(Stack)
    /\ Stack[layer[r]] \notin Middlewares

PaidProof(r) == httpReq[r].proof = "valid"

\* C11: no route handler runs, and no dispatch or provider call is started,
\* for a request without a valid payment proof: the payment middleware is
\* registered before every POST handler and every POST route has an entry in
\* the middleware's route table.
C11_NoHandlerBeforePayment ==
    /\ \A i \in 1..Len(Handlers) : Handlers[i] \in RouteTable
    /\ \A i, j \in 1..Len(Stack) :
          (Stack[i] = "paymentMiddleware" /\ Stack[j] \notin Middlewares) => i < j
    /\ \A r \in Requests :
          (HandlerRan(r) \/ pc[r] # "idle" \/ invoked[r] # <<>>) => PaidProof(r)

\* A paid request to the last route of the table has reached its handler and
\* has its answer.
C11_Witness ==
    /\ HandlerRan(1)
    /\ httpReq[1].path = "/api/hash"
    /\ PaidProof(1)
    /\ written[1].status = 200

\* C13: an AI route handler tests its required fields before it dispatches:
\* when one of them is missing or empty the request is answered 400 and
\* callAI is not invoked for it.
ValidatedFields ==
    {"text", "code", "prompt", "question", "topic", "description", "item1", "item2"}

C14_OnlyExhaustionIsFatal ==
    [][\A r \in Requests :
          (pc[r] \in {"returned", "threw"} /\ written'[r] # written[r]) =>
              /\ PaidProof(r)
              /\ httpReq[r].path \in AiRoutes
              /\ written'[r].status \in {200, 500}
              /\ written'[r].status = 500 <=> AllProvidersFailed(r)
              /\ written'[r].status = 500 => written'[r].error = AggregateMessage
              /\ \A n \in 1..Len(invoked[r]) :
                    ((\A i \in 1..(n - 1) : FailedAt(r, i)) /\ SucceededAt(r, n)) =>
                        /\ written'[r].status = 200
                        /\ written'[r].result = ResponseOf(r, invoked[r][n].name).value]_vars

\* The only dispatch so far saw groq and gemini fail, and its request was
\* answered 200 with openrouter's text.
C14_Witness ==
    /\ dispatched = 1
    /\ history = {"groq", "gemini"}
    /\ written[1].status = 200
    /\ written[1].result = Str(<<"a">>)
    /\ httpReq[1].path = "/api/pro/chat"

\* C18: a request the client has abandoned keeps its pending provider call,
\* every call it made is answered before its dispatch ends, and the
\* dispatch ends as the responses of its calls say: with the text of
\* the first provider that answered one, after calls to the providers up to
\* that one, or with the aggregate error after calls to all.
C18_AbandonNotPropagated ==
    \A r \in Requests :
        abandoned[r] =>
            /\ pc[r] = "awaiting" =>
                  /\ inflight[r] = {invoked[r][Len(invoked[r])].name}
                  /\ inflight[r] = FetchedNames(r) \ ReceivedNames(r)
            /\ pc[r] \in {"returned", "threw"} =>
                  /\ inflight[r] = {}
                  /\ FetchedNames(r) \subseteq ReceivedNames(r)
                  /\ outcome[r] = ExpectedOutcome(Filled(r))
                  /\ Names(invoked[r]) = ExpectedCalls(Filled(r))

\* Abandoned while groq's call was pending; the dispatch went on to gemini
\* after groq's failure and waits for it.
C18_Witness ==
    /\ abandoned[1]
    /\ pc[1] = "awaiting"
    /\ Len(received[1]) = 1
    /\ inflight[1] = {"gemini"}

\* C19: a request without a valid payment proof is not answered with the
\* handler's 400 'Missing ...', and a 400 'Missing ...' is only written for
\* a request with a valid proof, by its handler, below the payment gate.
MissingMessages ==
    {"Missing text", "Missing code", "Missing prompt", "Missing question",
     "Missing topic", "Missing description", "Missing item1 or item2",
     "Missing json", "Missing password"}

HandlersMissing(r) == written[r].status = 400 /\ written[r].error \in MissingMessages

C19_GateBeforeValidation ==
    \A r \in Requests :
        /\ HandlersMissing(r) =>
              /\ PaidProof(r)
              /\ HandlerRan(r)
              /\ \E i \in 1..(layer[r] - 1) : Stack[i] = "paymentMiddleware"
        /\ (httpReq[r].path \in RouteTable /\ ~PaidProof(r)) =>
              /\ ~HandlersMissing(r)
              /\ written[r].status \in {0, 402}

\* An unpaid request without its required field: answered 402, not 400.
C19_Witness ==
    /\ httpReq[1].path = "/api/summarize"
    /\ httpReq[1].proof = "none"
    /\ httpReq[1].body.text = Absent
    /\ written[1].status = 402
    /\ layer[1] = 2


\* --------------------------------------------- claims on the flag variant
\* The provider the flag names: Gemini for "gemini", HuggingFace for
\* "huggingface", OpenRouter for anything else and for no value.
FlagChoice(raw) ==
    IF raw = "gemini" THEN "gemini"
    ELSE IF raw = "huggingface" THEN "huggingface"
    ELSE "openrouter"

OwnPrefix(name) ==
    CASE name = "gemini" -> "Gemini error: "
      [] name = "huggingface" -> "HuggingFace error: "
      [] OTHER -> "OpenRouter error: "

\* Dispatch r has called the flag's provider and no other, and what it threw
\* is what that provider threw.
OneProviderNoFallback(r) ==
    pc[r] # "idle" =>
        /\ Len(invoked[r]) = 1
        /\ invoked[r][1].name = FlagChoice(env.AI_PROVIDER)
        /\ invoked[r][1].fetch
        /\ inflight[r] \subseteq {invoked[r][1].name}
        /\ Len(received[r]) <= 1
        /\ logged[r] = <<>>
        /\ pc[r] = "threw" =>
              /\ outcome[r].kind = "error"
              /\ outcome[r].message # AggregateMessage
              /\ outcome[r].message = SettleFlag(invoked[r][1].name, received[r][1].response).error.message
              /\ (received[r][1].response.kind = "http" /\ ~Ok(received[r][1].response)) =>
                    outcome[r].message =
                        OwnPrefix(invoked[r][1].name) \o received[r][1].response.body

\* C20: in the flag-driven variant a call of callAI invokes exactly one
\* provider, the one the flag names, and has no fallback: the provider's
\* error is what callAI throws, and the handler answers 500 with that
\* error's message.
C20_FlagPicksOneProvider ==
    [][\A r \in Requests :
          /\ OneProviderNoFallback(r)'
          /\ (pc[r] = "threw" /\ written'[r] # written[r]) =>
                written'[r] = Response(500, outcome[r].message, Null, "")]_vars

\* The flag is "huggingface" and HuggingFace answered 503: the request was
\* answered 500 with HuggingFace's error.
C20_Witness ==
    /\ env.AI_PROVIDER = "huggingface"
    /\ written[1].status = 500
    /\ written[1].error = "HuggingFace error: overloaded"


\* ------------------------------------------------------ claims, continued
\* The request at slot r has reached the handler of an AI route.
AtAiHandler(r) == HandlerRan(r) /\ httpReq[r].path \in AiRoutes

\* The answers an AI handler gives: 400 for a missing field, 200 with a
\* text, 500 with an error message.
AiAnswer(w) ==
    \/ w.status = 400 /\ w.error \in MissingMessages
    \/ w.status = 200 /\ w.result.type = "string"
    \/ w.status = 500 /\ w.error # ""

\* C21: when every provider call resolves, a request that has reached an AI
\* handler gets a response, and one only: a 400 for a missing field, a 200
\* with a result or a 500 with an error message; callAI ends, after three
\* provider calls at most.
C21_EveryRequestAnswered ==
    /\ [](\A r \in Requests :
            /\ Len(invoked[r]) <= 3
            /\ (AtAiHandler(r) /\ written[r] # NoResponse) => AiAnswer(written[r]))
    /\ [][\A r \in Requests :
            written[r] # NoResponse =>
                \/ written'[r] = written[r]
                \/ written'[r] = NoResponse /\ httpReq'[r] = NoHttpRequest]_vars
    /\ \A r \in Requests : (pc[r] = "awaiting") ~> (pc[r] \in {"returned", "threw"})
    /\ \A r \in Requests : AtAiHandler(r) ~> (written[r] # NoResponse)

\* The only dispatch so far called all three providers, and its request was
\* answered 500.
C21_Witness ==
    /\ AtAiHandler(1)
    /\ dispatched = 1
    /\ history = {"groq", "gemini", "openrouter"}
    /\ written[1].status = 500


\* C22: the tier of a dispatch is the route's, whatever the body holds: the
\* three pro handlers dispatch with tier "pro", so that groq is asked for
\* qwen-qwq-32b, and every other AI handler with no tier, which is
\* "standard", so that groq is asked for llama-3.3-70b-versatile.
ProPaths == {"/api/pro/chat", "/api/pro/write", "/api/pro/code-review"}

C22_TierFixedByRoute ==
    \A r \in Requests :
        (Arrived(r) /\ pc[r] # "idle") =>
            /\ httpReq[r].path \in AiRoutes
            /\ invoked[r][1].name = "groq"
            /\ IF httpReq[r].path \in ProPaths
                 THEN /\ DefaultParam(tier[r]) = "pro"
                      /\ invoked[r][1].request.model = "qwen-qwq-32b"
                 ELSE /\ DefaultParam(tier[r]) = "standard"
                      /\ invoked[r][1].request.model = "llama-3.3-70b-versatile"

\* A request to a standard route whose body asks for tier "pro" and for the
\* pro model: groq is asked for the standard model.
C22_Witness ==
    /\ httpReq[1].path = "/api/chat"
    /\ httpReq[1].body.tier = "pro"
    /\ httpReq[1].body.model = "qwen-qwq-32b"
    /\ pc[1] = "awaiting"
    /\ invoked[1][1].request.model = "llama-3.3-70b-versatile"

\* C23: the model and tier an AI handler reports with a result are the
\* route's, whichever provider of the chain produced the text.
C23_LabelsAreRouteConstants ==
    \A r \in Requests :
        (AtAiHandler(r) /\ written[r].status = 200) =>
            IF httpReq[r].path \in ProPaths
              THEN written[r].model = "qwen-qwq-32b" /\ written[r].tier = "pro"
              ELSE written[r].model = "llama-3.3-70b" /\ written[r].tier = Absent

\* The only dispatch so far, for /api/pro/chat, saw groq fail; its answer
\* reports qwen-qwq-32b.
C23_Witness ==
    /\ AtAiHandler(1)
    /\ httpReq[1].path = "/api/pro/chat"
    /\ dispatched = 1
    /\ history = {"groq"}
    /\ written[1].status = 200
    /\ written[1].model = "qwen-qwq-32b"
    /\ written[1].tier = "pro"


\* C24: the text callAI returns is the text of the response that ended the
\* dispatch, character for character, leading and trailing whitespace
\* included.
C24_TextReturnedUnchanged ==
    \A r \in Requests :
        pc[r] = "returned" =>
            LET last == received[r][Len(received[r])].response
            IN  /\ last.body = "content"
                /\ outcome[r].value.type = "string"
                /\ Len(outcome[r].value.text) = Len(last.value.text)
                /\ \A i \in 1..Len(last.value.text) :
                      outcome[r].value.text[i] = last.value.text[i]

\* The provider's text began with a blank, and so does what callAI returned.
C24_Witness ==
    /\ pc[1] = "returned"
    /\ outcome[1].value.text = <<" ", "a">>
    /\ Len(received[1]) = 1

\* C25: a 2xx response that is no JSON, that lacks the text path, or whose
\* text is null, undefined or no string, counts as a failure of its
\* provider: callAI returns nothing but a non-empty string, throws nothing
\* but the aggregate error, and goes on to the next provider.
Malformed(resp) ==
    /\ resp.kind = "http"
    /\ resp.status = 200
    /\ \/ resp.body \in {"notjson", "nopath"}
       \/ resp.body = "content" /\ resp.value.type # "string"

C25_MalformedBodyFallsThrough ==
    \A r \in Requests :
        /\ outcome[r].kind = "value" =>
              outcome[r].value.type = "string" /\ Len(outcome[r].value.text) > 0
        /\ outcome[r].kind = "error" => outcome[r].message = AggregateMessage
        /\ \A j \in 1..Len(received[r]) :
              Malformed(received[r][j].response) =>
                  LET k == ChainPosition(received[r][j].name)
                  IN  /\ pc[r] # "idle"
                      /\ j = Len(received[r]) => pc[r] # "returned"
                      /\ IF k < Len(Chain)
                           THEN \E i \in 1..Len(invoked[r]) :
                                    invoked[r][i].name = Chain[k + 1]
                           ELSE pc[r] = "threw"

\* groq's body lacked the text path, gemini's text was an object, and the
\* text of openrouter was returned.
C25_Witness ==
    /\ pc[1] = "returned"
    /\ Len(received[1]) = 3
    /\ received[1][1].response = NoPath
    /\ received[1][2].response = Content(Obj)
    /\ outcome[1].value = received[1][3].response.value


\* C26: the paths the manifest and the /api directory advertise are the
\* paths of the route table, each once and at the table's price, and
\* /health reports their number, 24.
Advertised(entries) ==
    /\ {entries[i].path : i \in 1..Len(entries)} = RouteTable
    /\ Len(entries) = Cardinality(RouteTable)
    /\ \A i \in 1..Len(entries) : entries[i].price = RoutePrice[entries[i].path]

C26_AdvertisedPricesMatch ==
    /\ DOMAIN RoutePrice = RouteTable
    /\ \A r \in Requests :
          (written[r].status = 200 /\ httpReq[r].path \in DiscoveryPaths) =>
              LET doc == written[r].result
              IN  CASE httpReq[r].path = "/.well-known/x402" ->
                           Advertised(doc.json.endpoints)
                    [] httpReq[r].path = "/api" ->
                           Advertised(doc.json.standardEndpoints
                                          \o doc.json.proEndpoints
                                          \o doc.json.utilityEndpoints)
                    [] httpReq[r].path = "/health" ->
                           /\ doc.json.endpoints = Cardinality(RouteTable)
                           /\ doc.json.endpoints = 24
                    [] OTHER -> TRUE

\* The manifest has been served, to a client with no payment proof.
C26_Witness ==
    /\ httpReq[1].path = "/.well-known/x402"
    /\ httpReq[1].proof = "none"
    /\ written[1].status = 200
    /\ Len(written[1].result.json.endpoints) = 24

\* ------------------------------------------- claims on the utility handlers
\* The JSON grammar over JsonChars, by generation: a value is a number, or an
\* array of values separated by commas; whitespace may surround a value.
Spaces(n) == {[i \in 1..k |-> " "] : k \in 0..n}
Padded(V, n) ==
    {t \in {a \o v \o b : a \in Spaces(n), v \in V, b \in Spaces(n)} : Len(t) <= n}

RECURSIVE Lists(_, _, _)
Lists(P, k, n) ==
    IF k = 0 THEN P
    ELSE LET L == Lists(P, k - 1, n)
         IN  L \cup {t \in {l \o <<",">> \o p : l \in L, p \in P} : Len(t) <= n}

RECURSIVE JsonGrammar(_, _)
JsonGrammar(depth, n) ==
    LET numbers == {[i \in 1..k |-> "1"] : k \in 1..n}
    IN  IF depth = 0 THEN numbers
        ELSE LET elements == Lists(Padded(JsonGrammar(depth - 1, n), n), n, n)
             IN  numbers \cup
                 {t \in {<<"[">> \o l \o <<"]">> : l \in Spaces(n) \cup elements} :
                     Len(t) <= n}

WellFormed == Padded(JsonGrammar(MaxJson, MaxJson), MaxJson)

\* The handler of /api/json-format has answered the request at slot r.
JsonAnswered(r) == HandlerRan(r) /\ httpReq[r].path = "/api/json-format"

\* C27 as stated: POST /api/json-format never answers 500; a json string
\* that cannot be parsed is answered with a success status, valid: false,
\* result: null and the error message; a missing json is answered 400; a
\* parseable json is answered valid: true.
C27_UnparseableStringInBand ==
    \A r \in Requests :
        JsonAnswered(r) =>
            LET json == httpReq[r].body.json
                ans == written[r]
            IN  /\ ans.status # 500
                /\ json.type = "undefined" => ans.status = 400
                /\ (json.type = "string" /\ json.text \notin WellFormed) =>
                       /\ ans.status = 200
                       /\ ans.result.json.valid = FALSE
                       /\ ans.result.json.result = Null
                       /\ ans.error # ""
                /\ (json.type = "string" /\ json.text \in WellFormed) =>
                       /\ ans.status = 200
                       /\ ans.result.json.valid = TRUE

\* C27, amended: POST /api/json-format never answers 500; a json that is
\* missing or falsy (undefined, null, the empty string) is answered 400
\* "Missing json"; a non-empty json string that cannot be parsed is answered
\* with status 200, valid: false, result: null and the error message; a
\* parseable string, and a json that is no string, is answered valid: true
\* with a result that is JSON text again.
C27_ParseErrorNeverFatal ==
    \A r \in Requests :
        JsonAnswered(r) =>
            LET json == httpReq[r].body.json
                ans == written[r]
            IN  /\ ans.status # 500
                /\ json.type \in {"undefined", "null"} \/ json = Str(<<>>) =>
                       /\ ans.status = 400
                       /\ ans.error = "Missing json"
                /\ (json.type = "string" /\ json.text # <<>>
                        /\ json.text \notin WellFormed) =>
                       /\ ans.status = 200
                       /\ ans.result.json.valid = FALSE
                       /\ ans.result.json.result = Null
                       /\ ans.error # ""
                /\ (json.type = "object"
                        \/ (json.type = "string" /\ json.text \in WellFormed)) =>
                       /\ ans.status = 200
                       /\ ans.error = ""
                       /\ ans.result.json.valid = TRUE
                       /\ ans.result.json.result.type = "string"
                       /\ JSONparse(ans.result.json.result.text).ok

\* A paid request whose json is the text "[1" has been answered with status
\* 200 and valid: false.
C27_Witness ==
    /\ JsonAnswered(1)
    /\ httpReq[1].body.json = Str(<<"[", "1">>)
    /\ written[1].status = 200
    /\ written[1].result.json.valid = FALSE
    /\ written[1].result.json.result = Null

\* The handler of /api/hash has answered the request at slot r.
HashAnswered(r) == HandlerRan(r) /\ httpReq[r].path = "/api/hash"

ListedAlgorithms == {Name("md5"), Name("sha256"), Name("sha512")}

\* C28 as stated: POST /api/hash computes a digest only for an algorithm
\* among md5, sha256 and sha512; an absent algorithm defaults to sha256 and
\* any other algorithm value is answered 400 without a hash; a missing text
\* is answered 400 whatever the algorithm.
C28_OtherAlgorithmsRejected ==
    \A r \in Requests :
        HashAnswered(r) =>
            LET text == httpReq[r].body.text
                algorithm == httpReq[r].body.algorithm
                ans == written[r]
            IN  /\ ~Truthy(text) =>
                       ans.status = 400 /\ ans.error = "Missing text"
                /\ ans.status = 200 =>
                       /\ algorithm \in ListedAlgorithms \cup {Undefined}
                       /\ ans.result.json.algorithm =
                              IF algorithm = Undefined THEN "sha256"
                              ELSE algorithm.text[1]
                /\ (Truthy(text) /\ algorithm \notin ListedAlgorithms \cup {Undefined}) =>
                       /\ ans.status = 400
                       /\ ans.error = "Use: md5, sha256, sha512"
                       /\ ans.result = Null

\* C28, amended: POST /api/hash computes a digest only with md5, sha256 or
\* sha512; an algorithm that is absent or falsy (null, the empty string)
\* defaults to sha256, and any other algorithm value is answered 400 without
\* a hash; a missing text is answered 400 whatever the algorithm.
C28_UnlistedAlgorithmsRejected ==
    \A r \in Requests :
        HashAnswered(r) =>
            LET text == httpReq[r].body.text
                algorithm == httpReq[r].body.algorithm
                ans == written[r]
            IN  /\ ~Truthy(text) =>
                       ans.status = 400 /\ ans.error = "Missing text"
                /\ ans.status = 200 =>
                       /\ algorithm \in ListedAlgorithms \/ ~Truthy(algorithm)
                       /\ ans.result.json.algorithm \in {"md5", "sha256", "sha512"}
                       /\ ans.result.json.algorithm =
                              IF Truthy(algorithm) THEN algorithm.text[1]
                              ELSE "sha256"
                       /\ ans.result.json.hash =
                              Digest(ans.result.json.algorithm, text)
                /\ (Truthy(text) /\ Truthy(algorithm)
                        /\ algorithm \notin ListedAlgorithms) =>
                       /\ ans.status = 400
                       /\ ans.error = "Use: md5, sha256, sha512"
                       /\ ans.result = Null
                /\ (text.type = "string" /\ Truthy(text)
                        /\ (algorithm \in ListedAlgorithms \/ ~Truthy(algorithm))) =>
                       ans.status = 200

\* A paid request for the sha1 hash of a text has been answered 400 with the
\* list of the algorithms.
C28_Witness ==
    /\ HashAnswered(1)
    /\ httpReq[1].body.text = Str(<<"a">>)
    /\ httpReq[1].body.algorithm = Name("sha1")
    /\ written[1].status = 400
    /\ written[1].error = "Use: md5, sha256, sha512"

\* The handler of /api/password-strength has answered the request at slot r.
PasswordAnswered(r) == HandlerRan(r) /\ httpReq[r].path = "/api/password-strength"

\* 12.5 * c rounded to the nearest integer, a half rounded up, for c = 0..8.
RoundedScore == <<0, 13, 25, 38, 50, 63, 75, 88, 100>>

\* C29: for a non-empty password, with c the number of the eight checks of
\* the answer that hold, the score is round(12.5 * c), within 0..100; the
\* strength is "strong" iff c >= 6, "medium" iff c is 4 or 5, "weak" iff c is
\* 2 or 3 and "very weak" iff c <= 1; c >= 1; and the strength is "very weak"
\* only for a password on the common-password list.
C29_ScoreAndStrengthByCount ==
    \A r \in Requests :
        (/\ PasswordAnswered(r)
         /\ httpReq[r].body.password.type = "string"
         /\ httpReq[r].body.password.text # <<>>) =>
            LET p == httpReq[r].body.password.text
                ans == written[r]
                doc == ans.result.json
                c == Cardinality({k \in DOMAIN doc.checks : doc.checks[k]})
            IN  /\ ans.status = 200
                /\ Cardinality(DOMAIN doc.checks) = 8
                /\ doc.score = RoundedScore[c + 1]
                /\ doc.score \in 0..100
                /\ doc.strength = "strong" <=> c >= 6
                /\ doc.strength = "medium" <=> c \in {4, 5}
                /\ doc.strength = "weak" <=> c \in {2, 3}
                /\ doc.strength = "very weak" <=> c <= 1
                /\ c >= 1
                /\ doc.strength = "very weak" => ToLowerCase(p) \in CommonPasswords
                /\ doc.checks.length8 <=> Len(p) >= 8
                /\ doc.checks.noCommon <=> ToLowerCase(p) \notin CommonPasswords

\* The password "123456" has been scored: one check holds, the score is 13
\* and the strength "very weak".
C29_Witness ==
    /\ PasswordAnswered(1)
    /\ httpReq[1].body.password = Str(<<"1", "2", "3", "4", "5", "6">>)
    /\ written[1].status = 200
    /\ written[1].result.json.score = 13
    /\ written[1].result.json.strength = "very weak"

====
